---- MODULE Spec2Model ----
(***************************************************************************)
(* Model of the DLS-data repository: the per-jurisdiction batch jobs that  *)
(* classify licence-suspension records into categories, derive a YYYY-MM   *)
(* time bucket for each record, and aggregate them into a monthly category *)
(* table.                                                                  *)
(*                                                                         *)
(* Text is modelled as TLA+ strings; keyword matching is the substring     *)
(* containment the Python `in` operator performs.  A cell value is a       *)
(* record [isna, s]: isna is pd.isna(value), s is str(value).              *)
(***************************************************************************)
EXTENDS Integers, Sequences, FiniteSets, TLC

VARIABLES
    cjur,       \* classification: jurisdiction whose classifier ran last
    carg1,      \* classification: first argument of the call
    carg2,      \* classification: second argument of the call (or NaN)
    ccat,       \* classification: returned category ("ERROR" if it raised)
    tsrc,       \* time bucket: the job whose record is bucketed
    ta,         \* time bucket: first text cell of the record
    tb,         \* time bucket: second text cell of the record
    ty,         \* time bucket: numeric year cell of the record
    tm,         \* time bucket: numeric month cell of the record
    tnow,       \* time bucket: the year of pd.Timestamp.today()
    ttime,      \* time bucket: "none", then the record's time value or "dropped"
    kfiles,     \* Colorado job: the workbooks of Colorado/Data, in sorted order
    know,       \* Colorado job: the year of pd.Timestamp.today()
    kstate,     \* Colorado job: "none", then "written" or "error"
    ktable,     \* Colorado job: the rows of the table written
    ifiles,     \* Illinois job: the workbooks of the Illinois folder, in sorted order
    iorder,     \* Illinois job: the order in which DataFrame.sum adds a column
    istate,     \* Illinois job: "none", then "written" or "error"
    ipivot,     \* Illinois job: output_df before the conversion to integers
    itable,     \* Illinois job: the rows of the table written
    nfiles,     \* Nevada job: the report files of the Nevada folder, in sorted order
    nstate,     \* Nevada job: "none", then "written" or "error"
    ntable,     \* Nevada job: the rows of the table written
    pidx,       \* ProcessAll: idx, the position in STATE_SCRIPTS of the next job
    pdata,      \* ProcessAll: all_state_data
    pfailed,    \* ProcessAll: failed_states
    plast,      \* ProcessAll: what the job run last did, and the output file found
    pattempted, \* ProcessAll: the script names run so far, in order
    pyielded,   \* ProcessAll: the script names whose run returned a table
    pall,       \* ProcessAll: the rows of All.csv
    pphase,     \* ProcessAll: "loop", then "done" or "interrupted"
    rcall,      \* run_state_script: the number of calls begun
    rpc,        \* run_state_script: where the main thread is
    rto_csv,    \* pd.DataFrame.to_csv: the calls whose capture_to_csv wrap the original
    roriginal,  \* run_state_script: original_to_csv of the running call
    rcaptured,  \* captured_df of each call's closure, while to_csv can reach it
    rstop,      \* progress_stop of each call: is the event set
    rrep,       \* show_progress of each call: where the reporter thread is
    rwrites,    \* the to_csv calls the running job has made: <<path, frame>>
    rmodule,    \* the variables of the module the running job leaves
    rcsv,       \* Outputs/<script>.csv of the running call
    rend,       \* how the running job ended
    rresult,    \* what the running call returned
    rdata,      \* is all_state_data not empty
    rall,       \* the closures that captured the frame written to All.csv
    mtable,     \* map_categories_to_output: df, the rows of a state's table
    mstate,     \* map_categories_to_output: "none", then "returned"
    mout,       \* map_categories_to_output: what it returned
    hjur,       \* row-count job: the jurisdiction
    hcolumns,   \* row-count job: does the input have the required columns
    hrecords,   \* row-count job: the records of the input file, in order
    hk,         \* row-count job: the number of chunks read
    hall,       \* row-count job: all_data, one frame per chunk read
    hstate,     \* row-count job: "none", "reading", then "written" or "error"
    htable,     \* row-count job: the rows of the table written
    vfrom,      \* Virginia parser: the FROM date of the report, [y, m, d]
    vto,        \* Virginia parser: the TO date of the report, [y, m, d]
    vissued,    \* Virginia parser: the issued count of the order record
    vcurrent,   \* Virginia parser: current, the first day of a month, [y, m]
    vmonths,    \* Virginia parser: months, the YYYY-MM labels collected
    vdata,      \* Virginia parser: all_data, the records emitted
    vstate,     \* Virginia parser: the position in parse_virginia_pdf
    slines,     \* Nevada scan: the lines of the report
    sk,         \* Nevada scan: the number of lines scanned
    sin_suspended,  \* Nevada scan: in_suspended_section
    sin_revoked,    \* Nevada scan: in_revoked_section
    ssuspended, \* Nevada scan: suspended_count
    srevoked,   \* Nevada scan: revoked_count
    sstate,     \* Nevada scan: "none", "scanning", then "emitted"
    srow        \* Nevada scan: the Other and total values emitted

cvars == <<cjur, carg1, carg2, ccat>>

tvars == <<tsrc, ta, tb, ty, tm, tnow, ttime>>

kvars == <<kfiles, know, kstate, ktable>>

ivars == <<ifiles, iorder, istate, ipivot, itable>>

nvars == <<nfiles, nstate, ntable>>
pvars == <<pidx, pdata, pfailed, plast, pattempted, pyielded, pall, pphase>>

rvars == <<rcall, rpc, rto_csv, roriginal, rcaptured, rstop, rrep, rwrites, rmodule, rcsv,
           rend, rresult, rdata, rall>>

mvars == <<mtable, mstate, mout>>

hvars == <<hjur, hcolumns, hrecords, hk, hall, hstate, htable>>

vvars == <<vfrom, vto, vissued, vcurrent, vmonths, vdata, vstate>>

svars == <<slines, sk, sin_suspended, sin_revoked, ssuspended, srevoked, sstate, srow>>

yvars == <<vvars, svars>>

xvars == <<rvars, mvars, hvars, yvars>>

vars == <<cvars, tvars, kvars, ivars, nvars, pvars, xvars>>

\* a numeric cell: isna is pd.isna(value), n is the number
NaNNum == [isna |-> TRUE, n |-> 0]

Num(n) == [isna |-> FALSE, n |-> n]

\* the variables of a part of the model that is not running
ClassifyIdle ==
    /\ cjur = "" /\ ccat = "none"
    /\ carg1 = [isna |-> TRUE, s |-> "nan"] /\ carg2 = [isna |-> TRUE, s |-> "nan"]

TimeIdle ==
    /\ tsrc = "" /\ tnow = 0 /\ ttime = "none"
    /\ ta = [isna |-> TRUE, s |-> "nan"] /\ tb = [isna |-> TRUE, s |-> "nan"]
    /\ ty = NaNNum /\ tm = NaNNum

ColoradoIdle == kfiles = <<>> /\ know = 0 /\ kstate = "none" /\ ktable = <<>>

IllinoisIdle ==
    ifiles = <<>> /\ iorder = "none" /\ istate = "none" /\ ipivot = <<>> /\ itable = <<>>

NevadaIdle == nfiles = <<>> /\ nstate = "none" /\ ntable = <<>>

ProcessAllIdle ==
    /\ pidx = 0 /\ pdata = <<>> /\ pfailed = <<>> /\ plast = [job |-> "none", csv |-> "absent"]
    /\ pattempted = <<>> /\ pyielded = {} /\ pall = <<>> /\ pphase = "none"

RunScriptIdle ==
    /\ rcall = 0 /\ rpc = "none" /\ rto_csv = <<>> /\ roriginal = <<>> /\ rcaptured = <<>>
    /\ rstop = <<>> /\ rrep = <<>> /\ rwrites = <<>> /\ rmodule = <<>>
    /\ rcsv = [state |-> "absent", content |-> "None"] /\ rend = "none"
    /\ rresult = "none" /\ rdata = FALSE /\ rall = [state |-> "none", by |-> <<>>]

MapIdle == mtable = <<>> /\ mstate = "none" /\ mout = [isnone |-> TRUE]

RowCountIdle ==
    /\ hjur = "" /\ hcolumns = TRUE /\ hrecords = <<>> /\ hk = 0 /\ hall = <<>>
    /\ hstate = "none" /\ htable = <<>>

\* a date that has not been read
NoDate == [y |-> 0, m |-> 0, d |-> 0]

VirginiaIdle ==
    /\ vfrom = NoDate /\ vto = NoDate /\ vissued = 0 /\ vcurrent = <<0, 0>>
    /\ vmonths = <<>> /\ vdata = <<>> /\ vstate = "none"

ScanIdle ==
    /\ slines = <<>> /\ sk = 0 /\ sin_suspended = FALSE /\ sin_revoked = FALSE
    /\ ssuspended = 0 /\ srevoked = 0 /\ sstate = "none" /\ srow = [Other |-> 0, total |-> 0]

ParserIdle == VirginiaIdle /\ ScanIdle

ExtraIdle == RunScriptIdle /\ MapIdle /\ RowCountIdle /\ ParserIdle

(***************************************************************************)
(* Python string primitives                                                *)
(***************************************************************************)
NaN == [isna |-> TRUE, s |-> "nan"]

Str(s) == [isna |-> FALSE, s |-> s]

LowerLetters == "abcdefghijklmnopqrstuvwxyz"

UpperLetters == "ABCDEFGHIJKLMNOPQRSTUVWXYZ"

Digits == "0123456789"

\* position of the one-character string c in alphabet, 0 if absent
IndexIn(c, alphabet) ==
    IF \E i \in 1..Len(alphabet) : SubSeq(alphabet, i, i) = c
    THEN CHOOSE i \in 1..Len(alphabet) : SubSeq(alphabet, i, i) = c
    ELSE 0

MapChars(s, from, to) ==
    LET F[i \in 0..Len(s)] ==
            IF i = 0 THEN ""
            ELSE LET c == SubSeq(s, i, i)
                     k == IndexIn(c, from)
                 IN  F[i - 1] \o (IF k = 0 THEN c ELSE SubSeq(to, k, k))
    IN  F[Len(s)]

\* str.upper()
Upper(s) == MapChars(s, LowerLetters, UpperLetters)

\* str.lower()
Lower(s) == MapChars(s, UpperLetters, LowerLetters)

\* str.strip(), for the blank character
Strip(s) ==
    IF \A i \in 1..Len(s) : SubSeq(s, i, i) = " " THEN ""
    ELSE LET a == CHOOSE i \in 1..Len(s) :
                      /\ SubSeq(s, i, i) # " "
                      /\ \A j \in 1..(i - 1) : SubSeq(s, j, j) = " "
             b == CHOOSE i \in 1..Len(s) :
                      /\ SubSeq(s, i, i) # " "
                      /\ \A j \in (i + 1)..Len(s) : SubSeq(s, j, j) = " "
         IN  SubSeq(s, a, b)

\* kw in text
Contains(text, kw) ==
    \E i \in 1..(Len(text) - Len(kw) + 1) : SubSeq(text, i, i + Len(kw) - 1) = kw

\* any(kw in text for kw in kws)
AnyIn(kws, text) == \E i \in 1..Len(kws) : Contains(text, kws[i])

\* text.startswith(prefix)
StartsWith(text, prefix) ==
    Len(text) >= Len(prefix) /\ SubSeq(text, 1, Len(prefix)) = prefix

\* text.replace(" ", "")
RemoveBlanks(s) ==
    LET F[i \in 0..Len(s)] ==
            IF i = 0 THEN ""
            ELSE LET c == SubSeq(s, i, i)
                 IN  F[i - 1] \o (IF c = " " THEN "" ELSE c)
    IN  F[Len(s)]

\* x in list
Among(list, x) == \E i \in 1..Len(list) : list[i] = x

(***************************************************************************)
(* Colorado: explicit code table, keyword lists, classifier                *)
(***************************************************************************)
EXPLICIT_CODE_CATEGORY ==
    ("SFTC" :> "FTP") @@ ("RAOC" :> "road_safety") @@ ("RLSN" :> "road_safety") @@
    ("CDHT" :> "Other") @@ ("CDJD" :> "FTA") @@ ("CDOJ" :> "FTA") @@
    ("CDUR" :> "FTA") @@ ("CDOF" :> "FTP") @@ ("SNRV" :> "FTP") @@
    ("RAON" :> "road_safety") @@ ("RAOH" :> "road_safety") @@
    ("RDRC" :> "road_safety") @@ ("RDUI" :> "road_safety") @@
    ("SDUI" :> "road_safety") @@ ("RLSC" :> "road_safety") @@
    ("SHAR" :> "road_safety") @@ ("RVAS" :> "road_safety") @@
    ("RVHM" :> "road_safety")

FTP_KEYWORDS ==
    <<"failed to comply", "failed to pay", "failure to pay", "ftp",
      "unsatisfied judgment", "child support", "financial responsibility",
      "no liability insurance", "insurance", "sr22", "non-resident violator",
      "out of state ftp", "interlock lease", "failed to register",
      "fail to register">>

FTA_KEYWORDS ==
    <<"failure to appear", "fail to appear", "fta", "default judgment",
      "default judgement", "judgment/default", "judgment", "judgement">>

ROAD_SAFETY_KEYWORDS ==
    <<"dui", "alcohol", "bac", "drugs", "controlled substance", "leave scene",
      "accident", "hit and run", "vehicular assault", "vehicular homicide",
      "excessive points", "serious violations", "rail crossing",
      "license restriction", "restriction", "out-of-service", "out of service",
      "reckless", "speeding">>

\* length of the leading run of characters of s drawn from alphabet
LeadingRun(s, alphabet) ==
    IF \A i \in 1..Len(s) : IndexIn(SubSeq(s, i, i), alphabet) # 0 THEN Len(s)
    ELSE (CHOOSE i \in 1..Len(s) :
              /\ IndexIn(SubSeq(s, i, i), alphabet) = 0
              /\ \A j \in 1..(i - 1) : IndexIn(SubSeq(s, j, j), alphabet) # 0) - 1

\* re.match(r"^([A-Z0-9]{2,5})\b", str(col_name).strip()): the leading run of
\* capitals and digits when it is 2 to 5 long and ends at a word boundary;
\* "" stands for None
extract_code(col_name) ==
    LET s == Strip(col_name.s)
        r == LeadingRun(s, UpperLetters \o Digits)
        boundary == \/ r = Len(s)
                    \/ IndexIn(SubSeq(s, r + 1, r + 1), LowerLetters \o "_") = 0
    IN  IF r >= 2 /\ r <= 5 /\ boundary THEN SubSeq(s, 1, r) ELSE ""

\* the text rules with the road_safety keywords tested first
infer_category_from_text_road_safety_first(text) ==
    IF text.isna THEN "ERROR"
    ELSE LET desc == Lower(text.s)
         IN  IF AnyIn(ROAD_SAFETY_KEYWORDS, desc) THEN "road_safety"
             ELSE IF AnyIn(FTA_KEYWORDS, desc) THEN "FTA"
             ELSE IF AnyIn(FTP_KEYWORDS, desc) THEN "FTP"
             ELSE "Other"

\* text.lower() raises AttributeError when text is not a string
infer_category_from_text(text) ==
    IF text.isna THEN "ERROR"
    ELSE LET desc == Lower(text.s)
         IN  IF AnyIn(FTA_KEYWORDS, desc) THEN "FTA"
             ELSE IF AnyIn(FTP_KEYWORDS, desc) THEN "FTP"
             ELSE IF AnyIn(ROAD_SAFETY_KEYWORDS, desc) THEN "road_safety"
             ELSE "Other"

infer_category_for_column(col_name) ==
    LET code == extract_code(col_name)
    IN  IF code # "" /\ code \in DOMAIN EXPLICIT_CODE_CATEGORY
        THEN EXPLICIT_CODE_CATEGORY[code]
        ELSE infer_category_from_text(col_name)

\* a column label classified as it is, not made a string first
NormalizeColumnSkipped(c) == c

\* the pivot's column labels are made strings before they are classified:
\* a missing label becomes the string "nan"
NormalizeColumn(c) == IF c.isna THEN Str("nan") ELSE Str(c.s)

(***************************************************************************)
(* Illinois                                                                *)
(***************************************************************************)
\* the statute-number rules (6-206, 6-205, 11-501) and the DUI text rule, which
\* come before the FTA and FTP keyword rules; "" when none of them matches
IllinoisStatuteRule(code) ==
    LET squeezed == RemoveBlanks(code)
    IN  IF Contains(code, "6206") \/ Contains(squeezed, "6-206")
        THEN IF AnyIn(<<"A1", "A2", "A3", "A4", "A5", "(A)1", "(A)2",
                        "(A)3", "(A)4", "(A)5">>, code)
             THEN "FTA" ELSE "FTP"
        ELSE IF Contains(code, "6205") \/ Contains(squeezed, "6-205")
        THEN "road_safety"
        ELSE IF \/ Contains(code, "11501")
                \/ Contains(squeezed, "11-501")
                \/ StartsWith(code, "1150")
        THEN "road_safety"
        ELSE IF AnyIn(<<"DUI", "ALCOHOL", "BAC">>, code) THEN "road_safety"
        ELSE ""

IllinoisFtaKeywords == <<"FTA", "FAILURE TO APPEAR", "FAIL TO APPEAR">>

IllinoisFtpKeywords ==
    <<"FTP", "FAILURE TO PAY", "FAILED TO PAY",
      "CHILD SUPPORT", "INSURANCE", "FINANCIAL">>

infer_category_for_illinois_code(code_str) ==
    IF code_str.isna THEN "Other"
    ELSE LET code == Upper(Strip(code_str.s))
         IN  IF IllinoisStatuteRule(code) # "" THEN IllinoisStatuteRule(code)
             ELSE IF AnyIn(IllinoisFtaKeywords, code) THEN "FTA"
             ELSE IF AnyIn(IllinoisFtpKeywords, code) THEN "FTP"
             ELSE IF AnyIn(<<"ACCIDENT", "RECKLESS", "SPEEDING", "HIT AND RUN",
                             "VEHICULAR", "DRUGS", "CONTROLLED SUBSTANCE">>, code)
             THEN "road_safety"
             ELSE "Other"

(***************************************************************************)
(* Maryland                                                                *)
(***************************************************************************)
\* the FTP rule of Maryland
MarylandFtpKeywords ==
    <<"FAILURE TO PAY", "FAILED TO PAY", "FTP", "INSURANCE", "FINANCIAL",
      "UNSATISFIED JUDGMENT", "NON-RESIDENT VIOLATORS", "RECIPROCITY",
      "VIOLATED RECIPROCITY">>

infer_category_for_maryland_code(sanction_type, decode2) ==
    LET text == (IF sanction_type.isna THEN "" ELSE " " \o Upper(sanction_type.s))
                \o (IF decode2.isna THEN "" ELSE " " \o Upper(decode2.s))
    IN  IF Contains(text, "CHILD SUPPORT") THEN "Child_Support"
        ELSE IF AnyIn(<<"FAIL TO APPEAR", "FAILURE TO APPEAR", "BENCH WARRANT",
                        "WARRANT">>, text)
        THEN "FTA"
        ELSE IF AnyIn(MarylandFtpKeywords, text)
        THEN "FTP"
        ELSE IF AnyIn(<<"ALCOHOL", "DUI", "BAC", "CHEMICAL TEST", "ADMIN PER SE",
                        "INTERLOCK", "A/R", "ALCOHOL CONTENT">>, text)
        THEN "road_safety"
        ELSE IF Contains(text, "POINT") THEN "road_safety"
        ELSE IF AnyIn(<<"RECKLESS", "SPEEDING", "ACCIDENT", "FATAL",
                        "VEHICULAR">>, text)
        THEN "road_safety"
        ELSE IF AnyIn(<<"MEDICAL", "GRADUATED LICENSE", "GLS", "PROVISIONAL">>, text)
        THEN "Other"
        ELSE "Other"

(***************************************************************************)
(* Minnesota                                                               *)
(***************************************************************************)
infer_category_for_minnesota_code(sanction_code) ==
    IF sanction_code.isna THEN "Other"
    ELSE LET raw == Upper(Strip(sanction_code.s))
             code == IF StartsWith(raw, "FAST.") THEN SubSeq(raw, 6, Len(raw))
                     ELSE IF StartsWith(raw, "FAST") THEN SubSeq(raw, 5, Len(raw))
                     ELSE raw
         IN  IF Among(<<"SD45", "SA12">>, code) THEN "FTA"
             ELSE IF Among(<<"SD51", "SD53", "SD56">>, code) THEN "FTP"
             ELSE IF Among(<<"SA90", "SA98", "SA21", "SA22", "SA33", "SA91",
                             "SA95", "SA11", "SA61", "SB20", "SB25", "SB26",
                             "SB51", "SB22", "SB74">>, code)
             THEN "road_safety"
             ELSE IF Among(<<"SD35", "SD36", "SD39", "SD27", "SD29", "SD16",
                             "SW00", "SW01", "SW72", "SU01", "SU03", "SU04",
                             "SU06">>, code)
             THEN "road_safety"
             ELSE IF StartsWith(code, "CONVERSION") THEN "Other"
             ELSE "Other"

(***************************************************************************)
(* New Mexico                                                              *)
(***************************************************************************)
infer_category_for_newmexico_action(action_code, description) ==
    LET code == Upper(Strip(action_code.s))
        desc == IF description.isna THEN "" ELSE Upper(Strip(description.s))
        text == code \o " " \o desc
    IN  IF AnyIn(<<"CHILD SUPPORT", "CHILDSUPPORT", "CHILD-SUPPORT",
                   "CHILD_SUPPORT", "CHLD SUPPORT", "CHLDSUPPORT",
                   "CHLD SPRT">>, text)
        THEN "Child_Support"
        ELSE IF \/ code = "D45"
                \/ Contains(desc, "FAIL APPEAR")
                \/ Contains(desc, "FAILURE TO APPEAR")
                \/ Contains(text, "FTA")
        THEN "FTA"
        ELSE IF \/ Among(<<"D53", "D51", "D56">>, code)
                \/ (Contains(desc, "FAIL TO PAY") /\ ~Contains(desc, "CHILD SUPPORT"))
                \/ (Contains(desc, "FAILURE TO PAY") /\ ~Contains(desc, "CHILD SUPPORT"))
                \/ (Contains(text, "FTP") /\ ~Contains(text, "CHILD SUPPORT"))
        THEN "FTP"
        ELSE IF \/ Among(<<"A21", "A12", "A98", "A20", "A11", "A22", "A23">>, code)
                \/ AnyIn(<<"DUI", "INTOX", "ALCOHOL", "BAC">>, desc)
        THEN "road_safety"
        ELSE IF AnyIn(<<"DRUG", "CONTROLLED SUBSTANCE">>, desc) THEN "road_safety"
        ELSE IF \/ Among(<<"B25", "B26", "B05">>, code)
                \/ AnyIn(<<"DRIVING WHILE", "LEAVE SCENE", "HIT AND RUN">>, desc)
        THEN "road_safety"
        ELSE IF AnyIn(<<"RECKLESS", "CARELESS">>, desc) THEN "road_safety"
        ELSE "Other"

(***************************************************************************)
(* New York                                                                *)
(***************************************************************************)
NewYorkFtaKeywords ==
    <<"FAILURE TO ANSWER", "FAIL TO ANSWER", "FAILURE TO APPEAR",
      "FAIL TO APPEAR", "APPEARANCE", "SUMMONS">>

NewYorkFtpKeywords ==
    <<"FAILURE TO PAY", "FAIL TO PAY", "FINE", "DISHONORED CHECK", "POST BOND">>

\* New York with a Child_Support rule ahead of its own rules, as the
\* jurisdictions with that column have
infer_category_for_newyork_reason_child_support(reason) ==
    IF reason.isna THEN "Other"
    ELSE LET text == Upper(Strip(reason.s))
         IN  IF Contains(text, "CHILD SUPPORT") THEN "Child_Support"
             ELSE IF AnyIn(NewYorkFtaKeywords, text) THEN "FTA"
             ELSE IF AnyIn(NewYorkFtpKeywords, text) THEN "FTP"
             ELSE "Other"

infer_category_for_newyork_reason(reason) ==
    IF reason.isna THEN "Other"
    ELSE LET text == Upper(Strip(reason.s))
         IN  IF AnyIn(NewYorkFtaKeywords, text) THEN "FTA"
             ELSE IF AnyIn(NewYorkFtpKeywords, text) THEN "FTP"
             ELSE "Other"

(***************************************************************************)
(* Oregon                                                                  *)
(***************************************************************************)
OregonFtaKeywords == <<"F APPEAR", "FAILURE TO APPEAR", "FAIL TO APPEAR">>

\* the four consecutive FTP rules: comply/pay, child support, unsatisfied
\* judgment, insurance
OregonFtpKeywords ==
    <<"F COMPLY", "FAILURE TO PAY", "FAIL PAY", "FPAYTAX",
      "CHILDSUPPORT", "CHLD SPRT", "CHILD SUPPORT",
      "UJUDGMNT", "UNSATISFIED JUDGMENT",
      "SR22V", "SR22I", "SR22", "SR22A", "SR22H", "INSURE",
      "MANDATORY INSURANCE", "DR UNINSUR", "DR UNINS", "OWNER UNINSURED",
      "ACCIDENT UNINSURED">>

infer_category_for_oregon(sanction_type, native_code_literal) ==
    LET text == (IF sanction_type.isna THEN ""
                 ELSE " " \o Upper(Strip(sanction_type.s)))
                \o (IF native_code_literal.isna THEN ""
                    ELSE " " \o Upper(Strip(native_code_literal.s)))
    IN  IF AnyIn(OregonFtaKeywords, text) THEN "FTA"
        ELSE IF AnyIn(OregonFtpKeywords, text) THEN "FTP"
        ELSE IF AnyIn(<<"DUII", "IMPLIEDCONSENT", "IMPLIED CONSENT",
                        "FAILED BREATH TEST", "REFUSED BREATH TEST",
                        "REFUSED URINE TEST", "FAILED BLOOD TEST", "DRVIMP",
                        "DRIVING IMPAIRED">>, text)
        THEN "road_safety"
        ELSE IF AnyIn(<<"ACCIDENT", "TRAFFICCRIME", "TRAFFIC CRIME", "RECK DR",
                        "RECKLESS", "RECK END MV", "SERIOUSACCIM",
                        "DR F RPT AC">>, text)
        THEN "road_safety"
        ELSE IF AnyIn(<<"HABIT", "HABITUAL OFFENDER", "MAJOR", "MAJORSUS",
                        "CDLMJR">>, text)
        THEN "road_safety"
        ELSE IF AnyIn(<<"FL/AT ELUDE", "ELUDE", "FLEEING">>, text) THEN "road_safety"
        ELSE IF AnyIn(<<"ASSAULT MV", "CRIM MIS MV", "CO/MV FLNY",
                        "UNAUTH USE">>, text)
        THEN "road_safety"
        ELSE IF Contains(text, "FTAFTC") /\ ~Contains(text, "F APPEAR") THEN "FTP"
        ELSE "Other"

(***************************************************************************)
(* Texas                                                                   *)
(***************************************************************************)
TexasRoadSafetyKeywords ==
    <<"ALR",
      "DWI", "DUI", "DRIVING WHILE INTOXICATED", "INTOXICATED", "INTOXICATION",
      "ALCOHOL", "BAC", "CHEMICAL TEST", "REFUSAL", "UNDER 21",
      "BOATING WHILE INTOXICATED", "BOATING REFUSAL", "BOATING FAILURE",
      "FLYING WHILE INTOXICATED", "AMUSEMENT RIDE INTOXICATION",
      "INTOXICATION ASSAULT", "INTOXICATION MANSLAUGHTER",
      "ADMINISTRATIVE PER SE", "IMPLIED CONSENT",
      "DRUG", "CONTROLLED SUBSTANCE", "DANGEROUS DRUG", "DRUG OFFENSE",
      "DWI EDUCATION PROGRAM", "DRUG EDUCATION PROGRAM",
      "SERIOUS TRAFFIC VIOLATIONS", "HABITUAL VIOLATOR", "HARDSHIP VIOLATOR",
      "REPEAT OFFENDER", "REPEATED", "SUBSEQUENT", "CRASH SERIOUS", "CRASH",
      "FATAL ACC", "INJ ACC", "PDO ACC", "FSRA", "LVSC",
      "VEHICLE MANSLAUGHTER", "CRIMINAL NEGLIGENT HOMICIDE",
      "MURDER WITH MOTOR VEHICLE",
      "FLEE POLICE", "EVADE ARREST", "EVADE DETENTION",
      "FAILURE TO STOP AND RENDER AID", "FAIL TO STOP", "FAIL TO SLOW",
      "FAILED TO OBEY", "FAIL TO STOP FOR SCHOOL BUS",
      "RACING", "PROHIBITION RACING",
      "VIOLATE RESTRICTION", "RESTRICTION", "PROHIBITION",
      "ORDER OF PROHIBITION">>

TexasCommercialKeywords ==
    <<"CMV", "CDL", "CLP", "COMMERCIAL", "HAZMAT", "OUT OF SERVICE",
      "RAILROAD VIOLATION", "RR XING", "RR GATE", "INSUFFICIENT SPACE",
      "DWLI", "DWLD", "DRIVING WHILE LICENSE", "DWL",
      "DRIVING WHILE LICENSE INVALID", "DRIVING WHILE LICENSE SUSPENDED",
      "DRIVING WHILE LICENSE REVOKED", "DRIVING WHILE LICENSE CANCELED",
      "DRIVING WHILE LICENSE DISQUALIFIED", "DRIVING WHILE LICENSE WITHDRAWN",
      "OUT OF STATE CONVICTION", "OUT-OF STATE CONVICTION",
      "OUT OF STATE CRASH", "OUT-OF STATE CRASH">>

\* the FTP rule of Texas
TexasFtpKeywords ==
    <<"NO LIABILITY INSURANCE", "CANCELLED INSURANCE", "INSURANCE",
      "FINANCIAL RESPONSIBILITY", "SR SUSPENSION", "SURCHARGE DUE",
      "DEFAULT INSTALLMENT AGREEMENT", "DEFAULTED INSTALLMENT", "LIABILITY JUDGMENT",
      "OUT OF STATE JUDGMENT", "OUT-OF STATE JUDGMENT", "FAILURE TO COMPLY",
      "FAIL TO COMPLY", "FTC", "OUT-OF STATE FTC", "OUT OF STATE FTC",
      "OUT-OF-STATE FTP", "OUT OF STATE FTP", "DHS OVERPAYMENT",
      "DENIED RENEWAL OUT-OF STATE FTC", "DENIED RENEWAL OUT-OF-STATE FTP">>

infer_category_for_texas_action(action_str) ==
    IF action_str.isna THEN "Other"
    ELSE LET action == Upper(Strip(action_str.s))
         IN  IF AnyIn(<<"CHILD SUPPORT", "DELINQUENT CHILD SUPPORT">>, action)
             THEN "Child_Support"
             ELSE IF AnyIn(<<"FAILURE TO APPEAR", "FAIL TO APPEAR", "FTA",
                             "OUT-OF-STATE FTA", "OUT OF STATE FTA">>, action)
             THEN "FTA"
             ELSE IF AnyIn(TexasFtpKeywords, action)
             THEN "FTP"
             ELSE IF AnyIn(TexasRoadSafetyKeywords, action) THEN "road_safety"
             ELSE IF AnyIn(<<"CANCELLED - CDL ONLY", "CANCELLED - CLP ONLY">>, action)
             THEN "Other"
             ELSE IF AnyIn(TexasCommercialKeywords, action) THEN "road_safety"
             ELSE "Other"

(***************************************************************************)
(* Utah                                                                    *)
(***************************************************************************)
\* the FTP rule of Utah
UtahFtpKeywords ==
    <<"FAIL TO COMPLY", "FAILURE TO PAY", "UNSATISFIED DAMAGES",
      "UNSATISFIED JUDGEMENT", "UNSATISFIED JUDGMENT">>

\* the insurance rule of Utah, which returns FTP too
UtahInsuranceKeywords ==
    <<"NO VEHICLE INSURANCE", "DRIVING W/O INSURANCE", "NO PROOF OF INSUR",
      "PROOF OF INS", "INSURANCE", "INS-SR22">>

infer_category_for_utah_description(description) ==
    IF description.isna THEN "Other"
    ELSE LET text == Upper(Strip(description.s))
         IN  IF Contains(text, "CHILD SUPPORT") THEN "Child_Support"
             ELSE IF AnyIn(<<"FAIL APPEAR", "FAILURE TO APPEAR",
                             "FAIL TO APPEAR", "FTA">>, text)
             THEN "FTA"
             ELSE IF AnyIn(UtahFtpKeywords, text)
             THEN "FTP"
             ELSE IF AnyIn(UtahInsuranceKeywords, text)
             THEN "FTP"
             ELSE IF AnyIn(<<"DUI", "PERSE ARREST", "PER SE", "REFUSAL TO SUBMIT",
                             "JUVENILE ALCOHOL", "METABOLITE",
                             "DRINKING AND DRIVING", "ALCOHOL", "BAC">>, text)
             THEN "road_safety"
             ELSE IF AnyIn(<<"CTRL SUBSTANCE", "CONTROLLED SUBSTANCE", "DRUG">>, text)
             THEN "road_safety"
             ELSE IF AnyIn(<<"DRIVING ON REVOCATION", "DRIVING WHILE SUSPENDED",
                             "DRIVE WHILE DENIED", "POINTS ACCUMULATION",
                             "RECKLESS DRIVING", "FLEEING", "EVADE ARREST",
                             "HIT & RUN", "HIT AND RUN", "LEAVE ACCID SCENE",
                             "AUTO HOMICIDE", "SPEEDING",
                             "ALC/DRUG RECKLESS">>, text)
             THEN "road_safety"
             ELSE "Other"

(***************************************************************************)
(* Vermont                                                                 *)
(***************************************************************************)
infer_category_for_vermont_code(suspension_code) ==
    IF suspension_code.isna THEN "Other"
    ELSE LET code == Upper(Strip(suspension_code.s))
         IN  IF Among(<<"FAF", "FAM", "FAD">>, code) THEN "FTA"
             ELSE IF Among(<<"FAP", "UJ", "MFC">>, code) THEN "FTP"
             ELSE IF Among(<<"DW1", "DW2", "DW3", "CA1", "CA2", "DA1", "DA2",
                             "CT1", "16C", "21A">>, code)
             THEN "road_safety"
             ELSE IF Among(<<"PTS", "PTC">>, code) THEN "road_safety"
             ELSE IF Among(<<"CNC", "CIV", "CIG", "CM1", "CX1">>, code)
             THEN "road_safety"
             ELSE "Other"

(***************************************************************************)
(* Virginia                                                                *)
(***************************************************************************)
VirginiaFtaKeywords ==
    <<"FAIL TO APPEAR", "FAILURE TO APPEAR", "FTA", "CE02", "JG02",
      "DEFAULT JUDGMENT">>

VirginiaFtpKeywords ==
    <<"FAILURE TO PAY", "FAILED TO PAY", "FAIL TO PAY", "FTP", "FAIL PAY",
      "JA01", "CV91", "FM01", "FM03", "JG01", "UNSATISFIED JUDGMENT",
      "JUDGMENT", "FINE", "COST", "FEE">>

\* the four consecutive road_safety rules: alcohol, drugs, serious
\* violations, other violations
VirginiaRoadSafetyKeywords ==
    <<"DUI", "ADMIN PER SE", "AP01", "AP55", "INTOX", "ALCOHOL", "DRIVE INFLU",
      "DR AFTER CONSUME", "DR CONSUME", "CV12", "CV57", "CV58", "CV59", "CV61",
      "BLOOD TEST", "CV25", "CV29",
      "DRUG", "CONTROLLED SUBSTANCE",
      "MANSLAUGHTER", "CV62", "MAIMING", "CV61", "FELONY", "EXCESSIVE PT",
      "DI04", "POINT ACCUMULATION",
      "RECKLESS", "SPEEDING", "ACCIDENT", "CRASH", "VIOLATION">>

VirginiaMedicalKeywords ==
    <<"MEDICAL", "MD", "CD40", "CD41", "CD42", "CD43", "CD44", "CD45", "CD48">>

\* the insurance rule, which returns FTP after the road_safety and medical rules
VirginiaInsuranceKeywords ==
    <<"INSURANCE", "UNINS", "IM01", "IM02", "IM03", "IM04", "CV01">>

infer_category_for_virginia_code(order_code, description) ==
    LET code == Upper(Strip(order_code.s))
        desc == IF description.isna THEN "" ELSE Upper(Strip(description.s))
        text == code \o " " \o desc
    IN  IF AnyIn(VirginiaFtaKeywords, text) THEN "FTA"
        ELSE IF AnyIn(VirginiaFtpKeywords, text) THEN "FTP"
        ELSE IF AnyIn(VirginiaRoadSafetyKeywords, text) THEN "road_safety"
        ELSE IF AnyIn(VirginiaMedicalKeywords, text) THEN "Other"
        ELSE IF AnyIn(VirginiaInsuranceKeywords, text) THEN "FTP"
        ELSE "Other"

(***************************************************************************)
(* Washington                                                              *)
(***************************************************************************)
\* the FTP rule of Washington
WashingtonFtpKeywords ==
    <<"FAILURE TO MAKE REQUIRED PAYMENT", "FAILED TO PAY", "FTP",
      "UNSATISFIED JUDGMENT", "FINANCIAL RESPONSIBILITY",
      "FAILURE TO COMPLY WITH FINANCIAL", "FAILURE TO PAY FOR DAMAGES",
      "INSTALLMENT PAYMENT", "FINE AND COSTS">>

infer_category_for_washington_reason(reason) ==
    IF reason.isna THEN "Other"
    ELSE LET text == Upper(Strip(reason.s))
         IN  IF Contains(text, "CHILD SUPPORT") THEN "Child_Support"
             ELSE IF AnyIn(<<"FAILURE TO APPEAR", "FAIL TO APPEAR",
                             "FAILURE TO ANSWER", "FAIL TO ANSWER",
                             "BENCH WARRANT", "WARRANT", "FTA">>, text)
             THEN "FTA"
             ELSE IF AnyIn(WashingtonFtpKeywords, text)
             THEN "FTP"
             ELSE IF AnyIn(<<"ALCOHOL", "DUI", "UNDER THE INFLUENCE",
                             "ADMINISTRATIVE PER SE", "BAC", "CHEMICAL TEST",
                             "REFUSED TO SUBMIT TO TEST", "IMPLIED CONSENT",
                             "UNDERAGE ADMINISTRATIVE PER SE",
                             ".02 OR HIGHER">>, text)
             THEN "road_safety"
             ELSE IF AnyIn(<<"DRUG", "CONTROLLED SUBSTANCE",
                             "UNDER THE INFLUENCE OF DRUGS">>, text)
             THEN "road_safety"
             ELSE IF AnyIn(<<"RECKLESS DRIVING", "HABITUAL TRAFFIC OFFENDER",
                             "HABITUAL OFFENDER",
                             "DRIVING WHILE LICENSE SUSPENDED",
                             "DRIVING WHILE LICENSE REVOKED", "HIT AND RUN",
                             "FAILURE TO STOP AND RENDER AID",
                             "VEHICULAR ASSAULT", "VEHICULAR HOMICIDE",
                             "FLEEING OR EVADING POLICE", "ROADBLOCK",
                             "SPEED CONTEST", "RACING",
                             "ACCUMULATION OF CONVICTIONS", "POINT">>, text)
             THEN "road_safety"
             ELSE IF Contains(text, "USING A MOTOR VEHICLE IN CONNECTION WITH A FELONY")
             THEN "road_safety"
             ELSE "Other"

(***************************************************************************)
(* The classification step of every job: the call each script makes on a   *)
(* record's label, and the category columns the script writes.             *)
(***************************************************************************)
Jurisdictions ==
    {"Colorado", "Illinois", "Maryland", "Minnesota", "NewMexico", "NewYork",
     "Oregon", "Texas", "Utah", "Vermont", "Virginia", "Washington"}

\* the `categories` list of each script (New Mexico: the keys of output_data)
Categories(j) ==
    IF j \in {"Maryland", "NewMexico", "Texas", "Utah", "Washington", "Nevada"}
    THEN <<"FTP", "FTA", "road_safety", "Child_Support", "Other">>
    ELSE <<"FTP", "FTA", "road_safety", "Other">>

\* the classifier call of jurisdiction j on the cell values a and b
Classify(j, a, b) ==
    CASE j = "Colorado"   -> infer_category_for_column(NormalizeColumn(a))
      [] j = "Illinois"   -> infer_category_for_illinois_code(a)
      [] j = "Maryland"   -> infer_category_for_maryland_code(a, b)
      [] j = "Minnesota"  -> infer_category_for_minnesota_code(a)
      [] j = "NewMexico"  -> infer_category_for_newmexico_action(a, b)
      [] j = "NewYork"    -> infer_category_for_newyork_reason(a)
      [] j = "Oregon"     -> infer_category_for_oregon(a, b)
      [] j = "Texas"      -> infer_category_for_texas_action(a)
      [] j = "Utah"       -> infer_category_for_utah_description(a)
      [] j = "Vermont"    -> infer_category_for_vermont_code(a)
      [] j = "Virginia"   -> infer_category_for_virginia_code(a, b)
      [] j = "Washington" -> infer_category_for_washington_reason(a)

(***************************************************************************)
(* Inputs of the classification model                                      *)
(***************************************************************************)
MaxPhrases == 2

Phrases ==
    {"failure to pay", "failed to pay", "child support", "failure to appear", "dui",
     "insurance", "medical exam"}

\* labels made of 1..n phrases separated by blanks
RECURSIVE PhraseLabels(_)
PhraseLabels(n) ==
    IF n = 1 THEN Phrases
    ELSE PhraseLabels(n - 1)
         \cup {l \o " " \o p : l \in PhraseLabels(n - 1), p \in Phrases}

Labels == PhraseLabels(MaxPhrases) \cup {Upper(l) : l \in PhraseLabels(MaxPhrases)}

\* a text cell: missing, empty, blank or a label
TextCells == {NaN, Str(""), Str(" ")} \cup {Str(l) : l \in Labels}

\* a second text cell (Maryland fstrDecode2, Oregon native code literal)
SecondCells == {NaN} \cup {Str(Upper(p)) : p \in Phrases}

\* codes of each code table, with a road_safety code first, and one code of no table
SampleCodes(j) ==
    CASE j = "Colorado"  -> {"RDUI", "SFTC", "CDJD", "CDHT", "ZZ"}
      [] j = "Illinois"  -> {"6-205", "6206A1", "6-206", "11-501", "9-999"}
      [] j = "Minnesota" -> {"SA90", "SD45", "SD53", "Fast.SD51", "ZZ99"}
      [] j = "NewMexico" -> {"A21", "B25", "D45", "D53", "Z99"}
      [] j = "Vermont"   -> {"DW1", "FAF", "FAP", "PTS", "ZZZ"}
      [] j = "Virginia"  -> {"AP01", "CV62", "CE02", "JA01", "ZZ00"}
      [] OTHER           -> {}

\* codes of the Colorado code table in other letter cases, and after a blank
CodeSpellings == {"rdui", "Rdui", " RDUI", "sftc", "Sftc", " SFTC"}

CodeCells(j) == {NaN} \cup {Str(c) : c \in SampleCodes(j)}

\* the jurisdictions whose classifier tests keyword lists on the label's text
KeywordJurisdictions ==
    {"Colorado", "Illinois", "Maryland", "NewYork", "Oregon", "Texas", "Utah",
     "Virginia", "Washington"}

\* the keywords of the rules of jurisdiction j that return FTP
OwnFtpKeywords(j) ==
    CASE j = "Colorado"   -> FTP_KEYWORDS
      [] j = "Illinois"   -> IllinoisFtpKeywords
      [] j = "Maryland"   -> MarylandFtpKeywords
      [] j = "NewYork"    -> NewYorkFtpKeywords
      [] j = "Oregon"     -> OregonFtpKeywords
      [] j = "Texas"      -> TexasFtpKeywords
      [] j = "Utah"       -> UtahFtpKeywords \o UtahInsuranceKeywords
      [] j = "Virginia"   -> VirginiaFtpKeywords \o VirginiaInsuranceKeywords
      [] j = "Washington" -> WashingtonFtpKeywords
      [] OTHER            -> <<>>

\* the labels that are one FTP keyword of jurisdiction j and nothing else;
\* Virginia's label is the description of an order whose code is in no table
KeywordInputs(j) ==
    {IF j = "Virginia" THEN <<Str("ZZ00"), Str(OwnFtpKeywords(j)[i])>>
     ELSE <<Str(OwnFtpKeywords(j)[i]), NaN>> : i \in 1..Len(OwnFtpKeywords(j))}

\* the argument pairs the model gives jurisdiction j's classifier
ClassifierInputs(j) ==
    CASE j = "Colorado" ->
            {<<a, NaN>> : a \in TextCells}
            \cup {<<Str(c \o " " \o l), NaN>> : c \in SampleCodes(j), l \in Labels}
            \cup {<<Str(c \o " " \o l), NaN>> : c \in CodeSpellings, l \in Phrases}
      [] j \in {"Illinois", "Minnesota", "Vermont"} ->
            {<<a, NaN>> : a \in TextCells \cup CodeCells(j)}
      [] j \in {"Maryland", "Oregon"} ->
            {<<a, b>> : a \in TextCells, b \in SecondCells}
      [] j \in {"NewMexico", "Virginia"} ->
            {<<a, b>> : a \in CodeCells(j), b \in TextCells}
      [] OTHER ->
            {<<a, NaN>> : a \in TextCells}

ClassifyInit ==
    /\ cjur \in Jurisdictions
    /\ \E in \in ClassifierInputs(cjur) \cup KeywordInputs(cjur) :
          carg1 = in[1] /\ carg2 = in[2]
    /\ ccat = "none"
    /\ TimeIdle /\ ColoradoIdle /\ IllinoisIdle /\ NevadaIdle /\ ProcessAllIdle /\ ExtraIdle

\* df['category'] = df[...].apply(infer_category_for_...)
ClassifyRecord ==
    /\ ccat = "none"
    /\ ccat' = Classify(cjur, carg1, carg2)
    /\ UNCHANGED <<cjur, carg1, carg2>>
    /\ UNCHANGED <<tvars, kvars, ivars, nvars, pvars, xvars>>

ClassifyNext == ClassifyRecord

SpecClassify == ClassifyInit /\ [][ClassifyNext]_vars

(***************************************************************************)
(* Properties of the classification step                                   *)
(***************************************************************************)
\* the text of the classified record, upper-cased
LabelText ==
    (IF carg1.isna THEN "" ELSE Upper(carg1.s)) \o " "
    \o (IF carg2.isna THEN "" ELSE Upper(carg2.s))

\* a record that matches no rule: every cell is missing, empty, blank or a
\* code of no table
UnmatchedCells ==
    {NaN, Str(""), Str(" "), Str("ZZ"), Str("9-999"), Str("ZZ99"), Str("Z99"),
     Str("ZZZ"), Str("ZZ00")}

JurisdictionsWithChildSupport ==
    {"Maryland", "NewMexico", "Texas", "Utah", "Washington"}

\* C2 as stated: a label with both a Child_Support keyword and an FTP keyword
\* is Child_Support in Maryland, New Mexico, Texas, Utah and Washington and
\* FTP in every other jurisdiction.
C2_AsStated ==
    (/\ ccat # "none"
     /\ Contains(LabelText, "CHILD SUPPORT")
     /\ Contains(LabelText, "FAILURE TO PAY"))
    => ccat = (IF cjur \in JurisdictionsWithChildSupport
               THEN "Child_Support" ELSE "FTP")

\* the label contains a keyword of the FTP rules of the jurisdiction
C2_FtpKeyword ==
    CASE cjur = "Colorado" -> AnyIn(FTP_KEYWORDS, Lower(LabelText))
      [] cjur = "Illinois" -> AnyIn(IllinoisFtpKeywords, LabelText)
      [] cjur = "NewYork"  -> AnyIn(NewYorkFtpKeywords, LabelText)
      [] cjur = "Oregon"   -> AnyIn(OregonFtpKeywords, LabelText)
      [] cjur = "Virginia" -> \/ AnyIn(VirginiaFtpKeywords, LabelText)
                              \/ AnyIn(VirginiaInsuranceKeywords, LabelText)
      [] OTHER -> \/ Contains(LabelText, "FAILURE TO PAY")
                  \/ Contains(LabelText, "INSURANCE")

\* a rule that the jurisdiction evaluates before its FTP rule matches the label
C2_EarlierRule ==
    CASE cjur = "Colorado" ->
            \/ extract_code(carg1) \in DOMAIN EXPLICIT_CODE_CATEGORY
            \/ AnyIn(FTA_KEYWORDS, Lower(LabelText))
      [] cjur = "Illinois" ->
            \/ IllinoisStatuteRule(LabelText) # ""
            \/ AnyIn(IllinoisFtaKeywords, LabelText)
      [] cjur = "NewYork" -> AnyIn(NewYorkFtaKeywords, LabelText)
      [] cjur = "Oregon" -> AnyIn(OregonFtaKeywords, LabelText)
      [] cjur = "Virginia" ->
            \/ AnyIn(VirginiaFtaKeywords, LabelText)
            \/ /\ ~AnyIn(VirginiaFtpKeywords, LabelText)
               /\ \/ AnyIn(VirginiaRoadSafetyKeywords, LabelText)
                  \/ AnyIn(VirginiaMedicalKeywords, LabelText)
      [] OTHER -> FALSE

\* C2, amended: a label with both a Child_Support keyword and an FTP keyword
\* is Child_Support in Maryland, New Mexico, Texas, Utah and Washington; in
\* Colorado, Illinois, New York, Oregon and Virginia it is FTP unless a rule
\* evaluated before the FTP rule matches it; in Minnesota and Vermont, which
\* classify by exact code, it is Other.
C2_ChildSupportOrFtp ==
    (ccat # "none" /\ Contains(LabelText, "CHILD SUPPORT") /\ C2_FtpKeyword)
    => CASE cjur \in JurisdictionsWithChildSupport -> ccat = "Child_Support"
         [] cjur \in {"Minnesota", "Vermont"} -> ccat = "Other"
         [] OTHER -> (~C2_EarlierRule => ccat = "FTP")

\* "failure to pay child support" classified in Utah (Child_Support)
C2_Witness ==
    /\ cjur = "Utah"
    /\ carg1 = Str("failure to pay child support")
    /\ ccat = "Child_Support"

\* the codes of the road_safety entries of a code table that the model samples
RoadSafetyCodes == {"RDUI", "A21", "B25", "AP01", "CV62"}

\* C3 as stated: in the jurisdictions that classify a code with a
\* description (Colorado, New Mexico, Virginia), a record whose code is a
\* road_safety code and whose description contains an FTP keyword is
\* road_safety.
C3_CodeBeatsText ==
    (/\ ccat # "none"
     /\ cjur \in {"Colorado", "NewMexico", "Virginia"}
     /\ \/ cjur = "Colorado" /\ extract_code(carg1) \in RoadSafetyCodes
        \/ cjur # "Colorado" /\ ~carg1.isna /\ carg1.s \in RoadSafetyCodes
     /\ Contains(LabelText, "FAILURE TO PAY"))
    => ccat = "road_safety"

\* the leading code of a label, trimmed and in capitals; "" when the label
\* does not start with a code
NormalizedCode(cell) == extract_code(Str(Upper(Strip(cell.s))))

\* C15: a Colorado label whose leading code, trimmed and in capitals, is a key
\* of EXPLICIT_CODE_CATEGORY has that key's category, in whatever letter case
\* the label spells the code.
C15_CodeInAnyCase ==
    (/\ cjur = "Colorado" /\ ccat # "none" /\ ~carg1.isna
     /\ NormalizedCode(carg1) \in DOMAIN EXPLICIT_CODE_CATEGORY)
    => ccat = EXPLICIT_CODE_CATEGORY[NormalizedCode(carg1)]

KeywordClassifiers ==
    {"Colorado", "Illinois", "Maryland", "NewMexico", "NewYork", "Oregon", "Texas",
     "Utah", "Virginia", "Washington"}

\* the classifier of jurisdiction j on a label alone, with no code and no
\* second text
ClassifyLabel(j, label) ==
    IF j \in {"NewMexico", "Virginia"} THEN Classify(j, NaN, Str(label))
    ELSE Classify(j, Str(label), NaN)

\* the position of a category in the order Child_Support, FTA, FTP,
\* road_safety, Other
GroupRank(cat) ==
    CASE cat = "Child_Support" -> 1
      [] cat = "FTA" -> 2
      [] cat = "FTP" -> 3
      [] cat = "road_safety" -> 4
      [] OTHER -> 5

FirstGroup(cat1, cat2) == IF GroupRank(cat1) <= GroupRank(cat2) THEN cat1 ELSE cat2

\* the record classified is a label alone, made of the phrases p and q
LabelOfTwo(p, q) ==
    /\ cjur \in KeywordClassifiers
    /\ ccat # "none"
    /\ LET cell == IF cjur \in {"NewMexico", "Virginia"} THEN carg2 ELSE carg1
           code == IF cjur \in {"NewMexico", "Virginia"} THEN carg1 ELSE carg2
       IN  code = NaN /\ cell = Str(p \o " " \o q)

OutOfOrderRule(j, p) ==
    \/ j = "Illinois" /\ IllinoisStatuteRule(Upper(p)) # ""
    \/ j = "Virginia" /\ AnyIn(VirginiaInsuranceKeywords, Upper(p))

IsDigits(s) ==
    Len(s) > 0 /\ \A i \in 1..Len(s) : IndexIn(SubSeq(s, i, i), Digits) # 0

\* int(s) for a string of decimal digits
RECURSIVE ToInt(_)
ToInt(s) ==
    IF Len(s) = 0 THEN 0
    ELSE ToInt(SubSeq(s, 1, Len(s) - 1)) * 10
         + (IndexIn(SubSeq(s, Len(s), Len(s)), Digits) - 1)

\* str(n) for n >= 0
RECURSIVE IntToStr(_)
IntToStr(n) ==
    IF n < 10 THEN SubSeq(Digits, n + 1, n + 1)
    ELSE IntToStr(n \div 10) \o SubSeq(Digits, (n % 10) + 1, (n % 10) + 1)

\* f"{n:0wd}" for n >= 0: zero-padded to at least w digits
ZeroPad(n, w) ==
    LET d == IntToStr(n)
    IN  IF Len(d) >= w THEN d ELSE SubSeq("00000000", 1, w - Len(d)) \o d

\* f"{int(year):04d}-{int(month):02d}"
FormatTime(year, month) == ZeroPad(year, 4) \o "-" \o ZeroPad(month, 2)

\* s.split(sep) for a separator that is one of the characters of seps
RECURSIVE Split(_, _)
Split(s, seps) ==
    IF \A i \in 1..Len(s) : IndexIn(SubSeq(s, i, i), seps) = 0 THEN <<s>>
    ELSE LET i == CHOOSE k \in 1..Len(s) :
                      /\ IndexIn(SubSeq(s, k, k), seps) # 0
                      /\ \A j \in 1..(k - 1) : IndexIn(SubSeq(s, j, j), seps) = 0
         IN  <<SubSeq(s, 1, i - 1)>> \o Split(SubSeq(s, i + 1, Len(s)), seps)

\* calendar.month_name[1..12], lower-cased
month_name ==
    <<"january", "february", "march", "april", "may", "june", "july",
      "august", "september", "october", "november", "december">>

\* the loop `for i in range(1, 13)` of month_name_to_number and
\* _month_from_sheet_name: the first month whose name is s or whose first
\* three letters start s; 0 when there is none
MonthOfName(s) ==
    LET hit(i) == month_name[i] = s \/ StartsWith(s, SubSeq(month_name[i], 1, 3))
    IN  IF \E i \in 1..12 : hit(i)
        THEN CHOOSE i \in 1..12 : hit(i) /\ \A j \in 1..(i - 1) : ~hit(j)
        ELSE 0

(***************************************************************************)
(* Time bucket of a record, per job                                        *)
(***************************************************************************)
\* Maryland: the time column made of Year_Posted and Month_Posted; a row
\* whose time is None is removed
maryland_time(year, month) ==
    IF ~year.isna /\ ~month.isna THEN FormatTime(year.n, month.n)
    ELSE "dropped"

\* Texas: 0 stands for None
month_name_to_number(month_str) ==
    IF month_str.isna THEN 0 ELSE MonthOfName(Lower(Strip(month_str.s)))

\* Texas: the year filter, the month filter and the time column
texas_time(year, month_str) ==
    IF year.isna \/ year.n < 2010 \/ year.n > 2025 THEN "dropped"
    ELSE IF month_name_to_number(month_str) = 0 THEN "dropped"
    ELSE FormatTime(year.n, month_name_to_number(month_str))

\* Colorado with the year of every file taken from the day of the run
infer_year_from_filename_today(stem, now) == now

\* Colorado: the first 4-digit token of the file stem, else the current year.
\* (re.split on runs of separators and a split at every separator give the
\* same non-empty tokens.)
infer_year_from_filename(stem, now) ==
    LET tokens == Split(stem, " _-.")
        year(i) == IsDigits(tokens[i]) /\ Len(tokens[i]) = 4
    IN  IF \E i \in 1..Len(tokens) : year(i)
        THEN ToInt(tokens[CHOOSE i \in 1..Len(tokens) :
                              year(i) /\ \A j \in 1..(i - 1) : ~year(j)])
        ELSE now

\* re.search(r"(?:^|[^0-9])([1-9]|1[0-2])(?:[^0-9]|$)", s): the number at the
\* leftmost position g that starts s or follows a non-digit, where one digit
\* 1-9, or else 10, 11 or 12, is followed by a non-digit or ends s; 0 for no match
SearchMonthNumber(s) ==
    LET digit(i) == i <= Len(s) /\ IndexIn(SubSeq(s, i, i), Digits) # 0
        edge(i) == i > Len(s) \/ ~digit(i)
        one(g) == digit(g) /\ SubSeq(s, g, g) # "0" /\ edge(g + 1)
        two(g) == /\ g + 1 <= Len(s)
                  /\ SubSeq(s, g, g) = "1"
                  /\ IndexIn(SubSeq(s, g + 1, g + 1), "012") # 0
                  /\ edge(g + 2)
        at(g) == (g = 1 \/ ~digit(g - 1)) /\ (one(g) \/ two(g))
    IN  IF \E g \in 1..Len(s) : at(g)
        THEN LET g == CHOOSE k \in 1..Len(s) : at(k) /\ \A j \in 1..(k - 1) : ~at(j)
             IN  IF one(g) THEN ToInt(SubSeq(s, g, g)) ELSE ToInt(SubSeq(s, g, g + 1))
        ELSE 0

\* Colorado: 0 stands for None
month_from_sheet_name(name) ==
    LET s == Lower(Strip(name))
    IN  IF MonthOfName(s) # 0 THEN MonthOfName(s) ELSE SearchMonthNumber(s)

\* Colorado: a sheet with no month is skipped; the rows of the others get
\* the time label made of the file's year and the sheet's month
colorado_time(stem, sheet_name, now) ==
    IF month_from_sheet_name(sheet_name) = 0 THEN "dropped"
    ELSE FormatTime(infer_year_from_filename(stem, now),
                    month_from_sheet_name(sheet_name))

\* Illinois: <<year, month>>, 0 standing for None
parse_month_year(month_year_str) ==
    IF month_year_str.isna THEN <<0, 0>>
    ELSE
    LET s == Strip(month_year_str.s)
        digits(i, j) == j <= Len(s) /\ IsDigits(SubSeq(s, i, j))
        char(i, c) == i <= Len(s) /\ SubSeq(s, i, i) = c
        \* (\d{1,2})/(\d{4}) with a k-digit month
        mmyyyy(k) == digits(1, k) /\ char(k + 1, "/") /\ digits(k + 2, k + 5)
        k1 == IF mmyyyy(2) THEN 2 ELSE IF mmyyyy(1) THEN 1 ELSE 0
        month1 == ToInt(SubSeq(s, 1, k1))
        \* (\d{4})-(\d{1,2})
        yyyymm == digits(1, 4) /\ char(5, "-") /\ digits(6, 6)
        month2 == IF digits(7, 7) THEN ToInt(SubSeq(s, 6, 7)) ELSE ToInt(SubSeq(s, 6, 6))
    IN  IF k1 # 0 /\ 1 <= month1 /\ month1 <= 12
        THEN <<ToInt(SubSeq(s, k1 + 2, k1 + 5)), month1>>
        ELSE IF yyyymm /\ 1 <= month2 /\ month2 <= 12
        THEN <<ToInt(SubSeq(s, 1, 4)), month2>>
        ELSE IF digits(1, 4) THEN <<ToInt(SubSeq(s, 1, 4)), 0>>
        ELSE <<0, 0>>

\* Illinois with a row that holds only a year left out
illinois_time_year_only_dropped(month_year_str) ==
    LET year == parse_month_year(month_year_str)[1]
        month == parse_month_year(month_year_str)[2]
    IN  IF year # 0 /\ month # 0 THEN FormatTime(year, month) ELSE "dropped"

\* Illinois, monthly file: the time of a row, "dropped" for time_data None
illinois_time(month_year_str) ==
    LET year == parse_month_year(month_year_str)[1]
        month == parse_month_year(month_year_str)[2]
    IN  IF year # 0 /\ month # 0 THEN FormatTime(year, month)
        ELSE IF year # 0 THEN ZeroPad(year, 4) \o "-01"
        ELSE "dropped"

\* Nevada: re.search(r'AS-OF DATE\s*:\s*(\d{4})-(\d{2})-(\d{2})', content),
\* else the default
nevada_as_of_date(content) ==
    LET n == Len(content)
        blank(i) == i <= n /\ SubSeq(content, i, i) = " "
        \* the first position from i on that holds no blank
        skip(i) == IF \E j \in i..n : ~blank(j)
                   THEN CHOOSE j \in i..n : ~blank(j) /\ \A l \in i..(j - 1) : blank(l)
                   ELSE n + 1
        digits(i, j) == j <= n /\ IsDigits(SubSeq(content, i, j))
        char(i, c) == i <= n /\ SubSeq(content, i, i) = c
        colon(i) == skip(i + 10)
        date(i) == skip(colon(i) + 1)
        match(i) == /\ i + 9 <= n
                    /\ SubSeq(content, i, i + 9) = "AS-OF DATE"
                    /\ char(colon(i), ":")
                    /\ digits(date(i), date(i) + 3)
                    /\ char(date(i) + 4, "-")
                    /\ digits(date(i) + 5, date(i) + 6)
                    /\ char(date(i) + 7, "-")
                    /\ digits(date(i) + 8, date(i) + 9)
    IN  IF \E i \in 1..n : match(i)
        THEN LET i == CHOOSE k \in 1..n : match(k) /\ \A j \in 1..(k - 1) : ~match(j)
             IN  SubSeq(content, date(i), date(i) + 3) \o "-"
                 \o SubSeq(content, date(i) + 5, date(i) + 6)
        ELSE "2023-06"

\* the days of a month: pd.Timestamp(year, month, day) raises ValueError
\* for a day the month does not have
DaysInMonth(year, month) ==
    IF month = 2
    THEN IF year % 4 = 0 /\ (year % 100 # 0 \/ year % 400 = 0) THEN 29 ELSE 28
    ELSE IF month \in {4, 6, 9, 11} THEN 30 ELSE 31

\* Minnesota: <<year, month, day>>, <<0, 0, 0>> standing for None; int() of
\* a part that is no number raises ValueError, which returns None
parse_minnesota_date(date_str) ==
    IF date_str.isna \/ Strip(date_str.s) = "" THEN <<0, 0, 0>>
    ELSE
    LET s == Strip(date_str.s)
        date_part == Split(s, " ")[1]
        parts == Split(date_part, "-")
        year == ToInt(parts[1])
        month == ToInt(parts[2])
        day == ToInt(parts[3])
    IN  IF s \in {"9999-12-31", "0000-00-00", "0"} THEN <<0, 0, 0>>
        ELSE IF ~Contains(s, "-") \/ Len(parts) < 3 THEN <<0, 0, 0>>
        ELSE IF ~(IsDigits(parts[1]) /\ IsDigits(parts[2]) /\ IsDigits(parts[3]))
        THEN <<0, 0, 0>>
        ELSE IF \/ year < 1970 \/ year > 2025 \/ month < 1 \/ month > 12
                \/ day < 1 \/ day > 31
        THEN <<0, 0, 0>>
        ELSE IF day > DaysInMonth(year, month) THEN <<0, 0, 0>>
        ELSE <<year, month, day>>

\* Minnesota: the date filters of a chunk and the time column
minnesota_time(date_str) ==
    LET d == parse_minnesota_date(date_str)
    IN  IF d = <<0, 0, 0>> THEN "dropped"
        ELSE IF ~(d[1] < 2025) THEN "dropped"
        ELSE IF ~(d[1] >= 1970) THEN "dropped"
        ELSE FormatTime(d[1], d[2])

\* a date parser that reads its four-digit year, month and day fields where
\* the format YYYYMMDD has them
parse_vermont_date_by_field(date_str) ==
    IF date_str.isna \/ Strip(date_str.s) = "" THEN <<0, 0, 0>>
    ELSE
    LET s == Strip(date_str.s)
        year == ToInt(SubSeq(s, 1, 4))
        month == ToInt(SubSeq(s, 5, 6))
        day == ToInt(SubSeq(s, 7, 8))
    IN  IF Len(s) # 8 \/ ~IsDigits(s) THEN <<0, 0, 0>>
        ELSE IF month < 1 \/ month > 12 \/ day < 1 \/ day > DaysInMonth(year, month)
        THEN <<0, 0, 0>>
        ELSE <<year, month, day>>

\* Vermont: <<year, month, day>>, <<0, 0, 0>> standing for None; int() of a
\* part that is no number and pd.Timestamp of a day the month does not have
\* or of a year outside 1678..2261 raise ValueError, which returns None
parse_vermont_date(date_str) ==
    IF date_str.isna \/ Strip(date_str.s) = "" THEN <<0, 0, 0>>
    ELSE
    LET s == Strip(date_str.s)
        yy == ToInt(SubSeq(s, 1, 2))
        year == IF Len(s) = 6 THEN (IF yy > 50 THEN yy + 1900 ELSE yy + 2000)
                ELSE ToInt(SubSeq(s, 1, 4))
        month == ToInt(SubSeq(s, 3, 4))
        day == IF Len(s) = 6 THEN ToInt(SubSeq(s, 5, 6)) ELSE ToInt(SubSeq(s, 5, 8))
    IN  IF s \in {"000000", "0"} \/ Len(s) < 6 THEN <<0, 0, 0>>
        ELSE IF Len(s) \notin {6, 8} \/ ~IsDigits(s) THEN <<0, 0, 0>>
        ELSE IF month < 1 \/ month > 12 \/ day < 1 \/ day > 31 THEN <<0, 0, 0>>
        ELSE IF year < 1678 \/ year > 2261 \/ day > DaysInMonth(year, month)
        THEN <<0, 0, 0>>
        ELSE <<year, month, day>>

\* Vermont: the date filters of a chunk and the time column
vermont_time(date_str) ==
    LET d == parse_vermont_date(date_str)
    IN  IF d = <<0, 0, 0>> THEN "dropped"
        ELSE IF ~(d[1] < 2025) THEN "dropped"
        ELSE IF ~(d[1] >= 1980) THEN "dropped"
        ELSE FormatTime(d[1], d[2])

(***************************************************************************)
(* The time-bucket step of the jobs that take the time from explicit       *)
(* columns, names, a Month/Year cell, a report header or a date field      *)
(***************************************************************************)
TimeSources ==
    {"Colorado", "Illinois", "Maryland", "Minnesota", "Nevada", "Texas", "Vermont"}

\* the time value the job gives the record, "dropped" when the record is left out
TimeOf(src, a, b, y, m, now) ==
    CASE src = "Colorado"  -> colorado_time(a.s, b.s, now)
      [] src = "Illinois"  -> illinois_time(a)
      [] src = "Maryland"  -> maryland_time(y, m)
      [] src = "Minnesota" -> minnesota_time(a)
      [] src = "Nevada"    -> nevada_as_of_date(a.s)
      [] src = "Texas"     -> texas_time(y, a)
      [] src = "Vermont"   -> vermont_time(a)

MaxMonthCell == 13

\* numeric month cells, absent ones and ones outside 1..12 included
MonthCells == {NaNNum} \cup {Num(n) : n \in 0..MaxMonthCell}

YearCells == {NaNNum, Num(2009), Num(2010), Num(2020), Num(2025), Num(2026), Num(9999)}

MonthNameCells ==
    {NaN, Str("January"), Str(" feb "), Str("Sept"), Str("DECEMBER"), Str("13"),
     Str("Unknown"), Str("")}

ColoradoStemsWithYear == {"Suspensions_2022", "CO-2021.final", "2019 2020"}

ColoradoStemsWithoutYear == {"report", "data2022", "FY_22"}

SheetNamesWithMonth == {"January", "February", "feb 2022", "Sheet1", "Q3", "12"}

SheetNamesWithoutMonth == {"Summary", "2022", "13", "Q07"}

IllinoisCellsWithMonth == {"03/2021", "3/2021", "2021-03", "2021-3", "2021-03-01 00:00:00"}

\* cells from which only a year can be read
IllinoisCellsYearOnly == {"2021", "2021.0", "2021-13", "2021 total"}

IllinoisCellsNoYear == {"", "March", "13/2021", "13/2021x", "3-2021", "21-03"}

NevadaReportsWithDate ==
    {"REPORT AS-OF DATE: 2023-06-30 PAGE 1", "AS-OF DATE  :2022-12-01",
     "AS-OF DATE: 2024-13-01", "AS-OF DATE AS-OF DATE : 2021-00-15"}

NevadaReportsWithoutDate ==
    {"LICENSE STATUS REPORT", "AS-OF DATE: 6/30/2023", "AS OF DATE: 2023-06-30",
     "AS-OF DATE: 2023-6-30"}

MinnesotaDatesParseable ==
    {"2020-03-15", "2020-03-15 00:00:00", " 2024-12-31 ", "1970-01-01",
     "2024-02-29"}

MinnesotaDatesUnparseable ==
    {"", " ", "0", "0000-00-00", "2020-13-01", "2023-02-29", "2020-03",
     "03/15/2020", "2020-xx-01", "2020-1-0"}

\* dates outside the range the job keeps
MinnesotaDatesOutOfRange == {"9999-12-31", "1969-12-31", "2025-06-01", "2026-01-01"}

\* Vermont EFFECTIVE_DATE cells of the form YYMMDD
VermontDatesShort ==
    {"990315", "800101", "791231", "510101", "500101", "000101", "241231", "250315",
     "240229", "230229", "991301", "990100"}

\* Vermont EFFECTIVE_DATE cells of the form YYYYMMDD
VermontDatesLong ==
    {"20200315", "19991231", "19800101", "20241231", "20240229", "20250315", "19791231",
     "20100015", "20120012", "20200230", "99991231"}

\* Vermont cells that are no date
VermontDatesUnparseable == {"", " ", "0", "000000", "00000000", "123", "99031x", "20200315.0"}

\* the cells <<a, b, y, m>> the model gives job src
TimeInputs(src) ==
    CASE src = "Colorado" ->
            {<<Str(f), Str(n), NaNNum, NaNNum>> :
                f \in ColoradoStemsWithYear \cup ColoradoStemsWithoutYear,
                n \in SheetNamesWithMonth \cup SheetNamesWithoutMonth}
      [] src = "Illinois" ->
            {<<c, NaN, NaNNum, NaNNum>> :
                c \in {NaN} \cup {Str(x) : x \in IllinoisCellsWithMonth
                                       \cup IllinoisCellsYearOnly
                                       \cup IllinoisCellsNoYear}}
      [] src = "Maryland" ->
            {<<NaN, NaN, y, m>> : y \in {NaNNum, Num(2020)}, m \in MonthCells}
      [] src = "Minnesota" ->
            {<<c, NaN, NaNNum, NaNNum>> :
                c \in {NaN} \cup {Str(x) : x \in MinnesotaDatesParseable
                                       \cup MinnesotaDatesUnparseable
                                       \cup MinnesotaDatesOutOfRange}}
      [] src = "Nevada" ->
            {<<Str(c), NaN, NaNNum, NaNNum>> :
                c \in NevadaReportsWithDate \cup NevadaReportsWithoutDate}
      [] src = "Texas" ->
            {<<c, NaN, y, NaNNum>> : c \in MonthNameCells, y \in YearCells}
      [] src = "Vermont" ->
            {<<c, NaN, NaNNum, NaNNum>> :
                c \in {NaN} \cup {Str(x) : x \in VermontDatesShort \cup VermontDatesLong
                                       \cup VermontDatesUnparseable}}

CurrentYears == {2025, 2026}

TimeInit ==
    /\ ClassifyIdle /\ ColoradoIdle /\ IllinoisIdle /\ NevadaIdle /\ ProcessAllIdle /\ ExtraIdle
    /\ tsrc \in TimeSources
    /\ tnow \in CurrentYears
    /\ \E in \in TimeInputs(tsrc) :
            ta = in[1] /\ tb = in[2] /\ ty = in[3] /\ tm = in[4]
    /\ ttime = "none"

\* the job derives the record's time value
TimeRecord ==
    /\ tsrc # "" /\ ttime = "none"
    /\ ttime' = TimeOf(tsrc, ta, tb, ty, tm, tnow)
    /\ UNCHANGED <<tsrc, ta, tb, ty, tm, tnow>>
    /\ UNCHANGED <<cvars, kvars, ivars, nvars, pvars, xvars>>

TimeNext == TimeRecord

SpecTime == TimeInit /\ [][TimeNext]_vars

(***************************************************************************)
(* Properties of the time-bucket step                                      *)
(***************************************************************************)
\* ^\d{4}-(0[1-9]|1[0-2])$
WellFormedTime(t) ==
    /\ Len(t) = 7
    /\ IsDigits(SubSeq(t, 1, 4))
    /\ SubSeq(t, 5, 5) = "-"
    /\ IsDigits(SubSeq(t, 6, 7))
    /\ ToInt(SubSeq(t, 6, 7)) \in 1..12

\* C6 as stated: every time value a record gets is of the form YYYY-MM with
\* month 01..12, and with explicit year and month columns (Maryland, Texas) a
\* record whose year or month is absent or whose month is outside 1..12 is
\* dropped.
C6_TimeWellFormed ==
    ttime # "none" =>
        /\ ttime # "dropped" => WellFormedTime(ttime)
        /\ (tsrc = "Maryland"
             /\ (ty.isna \/ tm.isna \/ tm.n < 1 \/ tm.n > 12)) => ttime = "dropped"
        /\ (tsrc = "Texas"
             /\ (ty.isna \/ ta.isna
                 \/ ta.s \in {"13", "Unknown", ""})) => ttime = "dropped"

\* the year or the month of the record cannot be derived from its source
C7_Underivable ==
    \/ tsrc = "Colorado" /\ ta.s \in ColoradoStemsWithoutYear
    \/ tsrc = "Colorado" /\ tb.s \in SheetNamesWithoutMonth
    \/ tsrc = "Illinois"
        /\ (ta.isna \/ ta.s \in IllinoisCellsYearOnly \cup IllinoisCellsNoYear)
    \/ tsrc = "Minnesota" /\ (ta.isna \/ ta.s \in MinnesotaDatesUnparseable)
    \/ tsrc = "Nevada" /\ ta.s \in NevadaReportsWithoutDate
    \/ tsrc = "Maryland" /\ (ty.isna \/ tm.isna)
    \/ tsrc = "Texas" /\ (ty.isna \/ ta.isna \/ ta.s \in {"13", "Unknown", ""})

C16_LongDateAccepted ==
    (/\ tsrc = "Vermont" /\ ttime # "none" /\ ~ta.isna
     /\ parse_vermont_date_by_field(ta) # <<0, 0, 0>>
     /\ parse_vermont_date_by_field(ta)[1] \in 1980..2024)
    => ttime = SubSeq(Strip(ta.s), 1, 4) \o "-" \o SubSeq(Strip(ta.s), 5, 6)

\* the year of a well-formed date of a date-parsing job: YYYY-MM-DD in
\* Minnesota, YYMMDD with the century pivot at 50 in Vermont; 0 for any other
\* cell
WellFormedYear ==
    IF ta.isna THEN 0
    ELSE IF tsrc = "Minnesota" /\ ta.s \in MinnesotaDatesParseable \cup MinnesotaDatesOutOfRange
    THEN ToInt(SubSeq(Strip(ta.s), 1, 4))
    ELSE IF tsrc = "Vermont" /\ ta.s \in VermontDatesShort
              /\ parse_vermont_date(ta) # <<0, 0, 0>>
    THEN parse_vermont_date(ta)[1]
    ELSE 0

\* C17: a record with a well-formed date is retained exactly when the year of
\* the date is in the range of the job, both end years included: 1970..2025 in
\* Minnesota, 1980..2025 in Vermont; the sentinel 9999-12-31 is dropped.
C17_RetainedInRange ==
    (ttime # "none" /\ WellFormedYear # 0) =>
        /\ (ttime # "dropped")
              <=> (WellFormedYear >= (IF tsrc = "Vermont" THEN 1980 ELSE 1970)
                   /\ WellFormedYear <= 2025)
        /\ ta.s = "9999-12-31" => ttime = "dropped"

(***************************************************************************)
(* Colorado job: workbooks -> month-by-reason pivot per workbook ->        *)
(* combined pivot -> category table                                        *)
(*                                                                         *)
(* A workbook is [stem, sheets]; a sheet is [name, rows], rows being the   *)
(* cells of its reason column (there is no count column, so each row       *)
(* counts 1).                                                              *)
(***************************************************************************)
\* the sum of f[x] over the x of S
RECURSIVE SumOver(_, _)
SumOver(S, f) ==
    IF S = {} THEN 0
    ELSE LET x == CHOOSE y \in S : TRUE
         IN  f[x] + SumOver(S \ {x}, f)

\* the order of YYYY-MM strings
TimeKey(t) == ToInt(SubSeq(t, 1, 4)) * 100 + ToInt(SubSeq(t, 6, 7))

\* the times of a set of <<key, time>> pairs in ascending order of the key
RECURSIVE SortKeyed(_)
SortKeyed(P) ==
    IF P = {} THEN <<>>
    ELSE LET p == CHOOSE x \in P : \A y \in P : x[1] <= y[1]
         IN  <<p[2]>> \o SortKeyed(P \ {p})

\* the times of S in ascending order (sort_index)
SortTimes(S) == SortKeyed({<<TimeKey(t), t>> : t \in S})

\* frames: the sheets whose name gives a month, each with the time label
\* src["_time"] of its rows; the other sheets are skipped
RECURSIVE FramesOf(_, _)
FramesOf(sheets, yr) ==
    IF sheets = <<>> THEN <<>>
    ELSE LET mon == month_from_sheet_name(Head(sheets).name)
         IN  (IF mon = 0 THEN <<>>
              ELSE <<[time |-> FormatTime(yr, mon), rows |-> Head(sheets).rows]>>)
             \o FramesOf(Tail(sheets), yr)

Frames(file, now) == FramesOf(file.sheets, infer_year_from_filename(file.stem, now))

\* agg: the number of rows with time t and reason r
ReasonCount(frames, t, r) ==
    SumOver(1..Len(frames),
            [i \in 1..Len(frames) |->
                IF frames[i].time = t
                THEN Cardinality({j \in 1..Len(frames[i].rows) : frames[i].rows[j] = r})
                ELSE 0])

\* the reasons that occur in the rows: the columns of wide
ReasonsOf(frames) ==
    UNION {{frames[i].rows[j] : j \in 1..Len(frames[i].rows)} : i \in 1..Len(frames)}

\* wide: one row per time in ascending order, a cell per reason, and the
\* row's total
WideRows(frames, reasons, times) ==
    [i \in 1..Len(times) |->
        [time |-> times[i],
         cells |-> [r \in reasons |-> ReasonCount(frames, times[i], r)],
         total |-> SumOver(reasons, [r \in reasons |-> ReasonCount(frames, times[i], r)])]]

\* out: wide and the totals_row that sums every column of it
WithTotalsRow(wide, reasons) ==
    wide \o <<[time |-> "total",
               cells |-> [r \in reasons |->
                             SumOver(1..Len(wide),
                                     [i \in 1..Len(wide) |-> wide[i].cells[r]])],
               total |-> SumOver(1..Len(wide), [i \in 1..Len(wide) |-> wide[i].total])]>>

PivotOfFrames(frames, reasons) ==
    WithTotalsRow(WideRows(frames, reasons,
                           SortTimes({frames[i].time : i \in 1..Len(frames)})),
                  reasons)

PivotOf(frames) == PivotOfFrames(frames, ReasonsOf(frames))

build_month_reason_pivot(file, now) == PivotOf(Frames(file, now))

\* pd.concat raises ValueError for a workbook none of whose sheets gives a month
PivotRaises(file) == FramesOf(file.sheets, 0) = <<>>

\* all_pivots, concatenated: the month rows of every workbook, its "total"
\* row removed
RECURSIVE ConcatPivots(_, _)
ConcatPivots(files, now) ==
    IF files = <<>> THEN <<>>
    ELSE SelectSeq(build_month_reason_pivot(Head(files), now),
                   LAMBDA row : row.time # "total")
         \o ConcatPivots(Tail(files), now)

\* sort_values("time"): rows with the same time keep their order
RECURSIVE SortRows(_)
SortRows(rows) ==
    IF rows = <<>> THEN <<>>
    ELSE LET i == CHOOSE k \in 1..Len(rows) :
                      /\ \A j \in 1..Len(rows) : TimeKey(rows[k].time) <= TimeKey(rows[j].time)
                      /\ \A j \in 1..(k - 1) : TimeKey(rows[j].time) > TimeKey(rows[k].time)
         IN  <<rows[i]>> \o SortRows(SubSeq(rows, 1, i - 1) \o SubSeq(rows, i + 1, Len(rows)))

\* code_cols: the columns of the combined pivot that hold reasons
CodeColumns(columns) ==
    {c \in columns : c \notin {"time", "total"} /\ ~StartsWith(c, "Unnamed")}

\* out[cat] of one row: the sum of the row's cells over the code columns
\* of category cat; a column the row's workbook does not have is NaN and is
\* skipped
CategorySum(cells, cat, col_to_category) ==
    SumOver({c \in DOMAIN cells \cap DOMAIN col_to_category : col_to_category[c] = cat},
            cells)

\* a row of the category table, its total the sum of the four categories
CategoryRow(time, cells, col_to_category) ==
    [time |-> time,
     FTP |-> CategorySum(cells, "FTP", col_to_category),
     FTA |-> CategorySum(cells, "FTA", col_to_category),
     road_safety |-> CategorySum(cells, "road_safety", col_to_category),
     Other |-> CategorySum(cells, "Other", col_to_category),
     total |-> CategorySum(cells, "FTP", col_to_category)
               + CategorySum(cells, "FTA", col_to_category)
               + CategorySum(cells, "road_safety", col_to_category)
               + CategorySum(cells, "Other", col_to_category)]

\* the columns of the combined pivot
CombinedColumns(combined) == UNION {DOMAIN combined[i].cells : i \in 1..Len(combined)}

\* totals_data: the sum of every column over the combined rows
ColumnTotals(combined, columns) ==
    [c \in columns |->
        SumOver({i \in 1..Len(combined) : c \in DOMAIN combined[i].cells},
                [i \in 1..Len(combined) |->
                    IF c \in DOMAIN combined[i].cells THEN combined[i].cells[c] ELSE 0])]

\* col_to_category: the category of every code column
ColToCategory(columns) ==
    [c \in CodeColumns(columns) |-> infer_category_for_column(NormalizeColumn(Str(c)))]

\* out: a category row per combined row, then the category row of the totals
CategoryRows(combined, totals, col_to_category) ==
    [i \in 1..Len(combined) |->
        CategoryRow(combined[i].time, combined[i].cells, col_to_category)]
    \o <<CategoryRow("total", totals, col_to_category)>>

CategoryTable(combined, columns) ==
    CategoryRows(combined, ColumnTotals(combined, columns), ColToCategory(columns))

CombinedTable(combined) == CategoryTable(combined, CombinedColumns(combined))

\* the table of the job: the combined month rows in time order, then the
\* totals row holding the sum of every column over them
ColoradoTable(files, now) == CombinedTable(SortRows(ConcatPivots(files, now)))

MaxFiles == 2

\* file stems of Colorado/Data in sorted order: one without a year token, and
\* two of the same year
ColoradoStems ==
    <<"Suspensions", "Suspensions_2021", "Suspensions_2022", "Suspensions_2022_b">>

FiledRows ==
    <<"FAILURE TO APPEAR", "FAILURE TO APPEAR", "FAILURE TO APPEAR",
      "FAILURE TO APPEAR", "NO LIABILITY INSURANCE", "NO LIABILITY INSURANCE">>

MixedRows == <<"RDUI dui conviction", "FAILURE TO APPEAR", "Medical">>

\* the sheets of a workbook: month sheets, a sheet that names no month, or none
ColoradoSheets ==
    {<<>>,
     <<[name |-> "Summary", rows |-> MixedRows]>>,
     <<[name |-> "January", rows |-> FiledRows], [name |-> "February", rows |-> FiledRows]>>,
     <<[name |-> "January", rows |-> MixedRows]>>,
     <<[name |-> "Summary", rows |-> FiledRows], [name |-> "feb 2022", rows |-> MixedRows]>>,
     <<[name |-> "January", rows |-> FiledRows], [name |-> "February", rows |-> FiledRows],
       [name |-> "Feb", rows |-> MixedRows]>>}

\* the workbooks of the directory: up to MaxFiles of them, sorted by name
ColoradoInputs ==
    UNION {{[i \in 1..n |-> [stem |-> ColoradoStems[pick[i]], sheets |-> sh[i]]] :
               pick \in {p \in [1..n -> 1..Len(ColoradoStems)] :
                            \A i \in 1..(n - 1) : p[i] < p[i + 1]},
               sh \in [1..n -> ColoradoSheets]} :
           n \in 1..MaxFiles}

ColoradoInit ==
    /\ ClassifyIdle /\ TimeIdle /\ IllinoisIdle /\ NevadaIdle /\ ProcessAllIdle /\ ExtraIdle
    /\ kfiles \in ColoradoInputs
    /\ know \in CurrentYears
    /\ kstate = "none"
    /\ ktable = <<>>

\* the job runs to its end and writes Colorado.csv
ColoradoWrite ==
    /\ kstate = "none" /\ kfiles # <<>>
    /\ \A i \in 1..Len(kfiles) : ~PivotRaises(kfiles[i])
    /\ ktable' = ColoradoTable(kfiles, know)
    /\ kstate' = "written"
    /\ UNCHANGED <<kfiles, know>>
    /\ UNCHANGED <<cvars, tvars, ivars, nvars, pvars, xvars>>

\* the job stops at the first workbook whose pivot cannot be built
ColoradoFail ==
    /\ kstate = "none" /\ kfiles # <<>>
    /\ \E i \in 1..Len(kfiles) : PivotRaises(kfiles[i])
    /\ kstate' = "error"
    /\ UNCHANGED <<kfiles, know, ktable>>
    /\ UNCHANGED <<cvars, tvars, ivars, nvars, pvars, xvars>>

ColoradoNext == ColoradoWrite \/ ColoradoFail

SpecColorado == ColoradoInit /\ [][ColoradoNext]_vars

(***************************************************************************)
(* Properties of the Colorado job                                          *)
(***************************************************************************)
\* one workbook of 2022 with sheets January and February, each holding
\* "FAILURE TO APPEAR" four times and "NO LIABILITY INSURANCE" twice
C9_Workbook ==
    <<[stem |-> "Suspensions_2022",
       sheets |-> <<[name |-> "January", rows |-> FiledRows],
                    [name |-> "February", rows |-> FiledRows]>>]>>

\* C9: for that workbook the table written is exactly 2022-01 with FTA 4,
\* FTP 2, total 6; 2022-02 with FTA 4, FTP 2, total 6; total with FTA 8,
\* FTP 4, total 12; road_safety and Other 0.
C9_ScenarioTable ==
    (kfiles = C9_Workbook /\ kstate # "none") =>
        /\ kstate = "written"
        /\ ktable =
             <<[time |-> "2022-01", FTP |-> 2, FTA |-> 4, road_safety |-> 0,
                Other |-> 0, total |-> 6],
               [time |-> "2022-02", FTP |-> 2, FTA |-> 4, road_safety |-> 0,
                Other |-> 0, total |-> 6],
               [time |-> "total", FTP |-> 4, FTA |-> 8, road_safety |-> 0,
                Other |-> 0, total |-> 12]>>

\* the job has written the table of that workbook
C9_Witness == kfiles = C9_Workbook /\ kstate = "written" /\ Len(ktable) = 3

\* the normalized records of the workbooks: the number of rows per time and
\* reason, over all workbooks
RECURSIVE AllFrames(_, _)
AllFrames(files, now) ==
    IF files = <<>> THEN <<>>
    ELSE Frames(Head(files), now) \o AllFrames(Tail(files), now)

NormalizedRecords(files, now) ==
    LET frames == AllFrames(files, now)
        pairs == UNION {{<<frames[i].time, frames[i].rows[j]>> :
                            j \in 1..Len(frames[i].rows)} : i \in 1..Len(frames)}
    IN  [p \in pairs |-> ReasonCount(frames, p[1], p[2])]

\* C10: the table is a function of the multiset of normalized records only:
\* workbooks holding the same records, however split into files, give the
\* same table.
C10_FunctionOfRecords ==
    kstate = "written" =>
        \A other \in ColoradoInputs :
            (/\ \A i \in 1..Len(other) : ~PivotRaises(other[i])
             /\ NormalizedRecords(other, know) = NormalizedRecords(kfiles, know))
            => ColoradoTable(other, know) = ktable

\* C12: the written table has one row per distinct YYYY-MM value (no time
\* value occurs in two rows) and exactly one row whose time is "total",
\* whatever the number of input files.
C12_OneRowPerTime ==
    kstate = "written" =>
        /\ \A i, j \in 1..Len(ktable) : ktable[i].time = ktable[j].time => i = j
        /\ Cardinality({i \in 1..Len(ktable) : ktable[i].time = "total"}) = 1

(***************************************************************************)
(* Weights of the Illinois job: IEEE 754 doubles                           *)
(*                                                                         *)
(* A nonnegative double below 2^33 and not below 2^-8 (or zero) is held    *)
(* exactly as an integer part i and 60 fraction bits in three limbs a, b,  *)
(* c of 20 bits: the value is i + a/2^20 + b/2^40 + c/2^60.  A double has  *)
(* 53 significant bits, so every operation rounds its exact result to the  *)
(* 53 bits below the leading one, ties to even.                            *)
(***************************************************************************)
Limb == 1048576

RECURSIVE Pow2(_)
Pow2(d) == IF d = 0 THEN 1 ELSE 2 * Pow2(d - 1)

\* the number of bits of n
RECURSIVE BitLen(_)
BitLen(n) == IF n = 0 THEN 0 ELSE 1 + BitLen(n \div 2)

FloatZero == [i |-> 0, a |-> 0, b |-> 0, c |-> 0]

\* float(count) of a whole count
FloatOfInt(n) == [i |-> n, a |-> 0, b |-> 0, c |-> 0]

\* the exponent of the leading bit of x > 0
Exponent(x) ==
    IF x.i > 0 THEN BitLen(x.i) - 1
    ELSE IF x.a > 0 THEN BitLen(x.a) - 21
    ELSE IF x.b > 0 THEN BitLen(x.b) - 41
    ELSE BitLen(x.c) - 61

\* carries of the limbs
Carry(x) ==
    LET c2 == x.c \div Limb
        b1 == x.b + c2
        b2 == b1 \div Limb
        a1 == x.a + b2
    IN  [i |-> x.i + a1 \div Limb, a |-> a1 % Limb, b |-> b1 % Limb, c |-> x.c % Limb]

\* a limb with its d low bits rounded away, ties to even: sticky says that
\* the exact value has bits below the limb, lsb is the lowest bit above it
RoundLimb(limb, d, sticky, lsb) ==
    LET low == limb % Pow2(d)
        half == Pow2(d - 1)
        keptOdd == IF d < 20 THEN (limb \div Pow2(d)) % 2 = 1 ELSE lsb = 1
        up == \/ low > half
              \/ low = half /\ (sticky \/ keptOdd)
    IN  limb - low + (IF up THEN Pow2(d) ELSE 0)

\* x, an exact result (with bits below the limbs when sticky), rounded to a
\* double
FloatRound(x, sticky) ==
    IF x = FloatZero THEN x
    ELSE LET d == 8 + Exponent(x)
         IN  IF d <= 0 THEN x
             ELSE IF d <= 20
             THEN Carry([x EXCEPT !.c = RoundLimb(x.c, d, sticky, x.b % 2)])
             ELSE Carry([x EXCEPT !.b = RoundLimb(x.b, d - 20, sticky \/ x.c > 0, x.a % 2),
                                  !.c = 0])

\* x + y of two doubles
FloatAdd(x, y) ==
    FloatRound(Carry([i |-> x.i + y.i, a |-> x.a + y.a, b |-> x.b + y.b, c |-> x.c + y.c]),
               FALSE)

\* count_val / 12 of a whole count: long division, 20 bits at a time
FloatDiv12(n) ==
    LET r0 == n % 12
        r1 == (r0 * Limb) % 12
        r2 == (r1 * Limb) % 12
        r3 == (r2 * Limb) % 12
    IN  FloatRound([i |-> n \div 12, a |-> (r0 * Limb) \div 12,
                    b |-> (r1 * Limb) \div 12, c |-> (r2 * Limb) \div 12],
                   r3 > 0)

\* astype(int) of a nonnegative double: the fraction is cut off
TruncToInt(x) == x.i

\* the sum of the doubles of a sequence from left to right, acc being the
\* running sum of the cells before xs[k]; each running sum is a double
\* before the next cell is added
RECURSIVE FloatSumFrom(_, _, _)
FloatSumFrom(acc, xs, k) ==
    IF k > Len(xs) THEN acc
    ELSE LET next == FloatAdd(acc, xs[k])
         IN  IF next.i >= 0 THEN FloatSumFrom(next, xs, k + 1) ELSE next

SequentialSum(xs) == FloatSumFrom(FloatZero, xs, 1)

\* numpy's pairwise sum of fewer than 128 doubles: eight running sums over
\* the blocks of eight, combined in pairs, then the rest from left to right
RECURSIVE BlockSum(_, _, _, _)
BlockSum(acc, xs, k, last) ==
    IF k > last THEN acc ELSE BlockSum(FloatAdd(acc, xs[k]), xs, k + 8, last)

PairwiseSum(xs) ==
    IF Len(xs) < 8 THEN SequentialSum(xs)
    ELSE LET last == Len(xs) - (Len(xs) % 8)
             r == [j \in 1..8 |-> BlockSum(xs[j], xs, j + 8, last)]
         IN  FloatSumFrom(FloatAdd(FloatAdd(FloatAdd(r[1], r[2]), FloatAdd(r[3], r[4])),
                                   FloatAdd(FloatAdd(r[5], r[6]), FloatAdd(r[7], r[8]))),
                          xs, last + 1)

(***************************************************************************)
(* Illinois job: workbooks -> weighted records -> monthly category table   *)
(*                                                                         *)
(* A workbook is [name, sheet2, sheets].  sheet2 is the monthly layout:    *)
(* codes are the cells of row 0 under the count columns, and a row is      *)
(* [cell, counts], cell being the Month/Year cell.  sheets is the yearly   *)
(* layout: a sheet is [name, header, years, rows], header being the name   *)
(* of its first column, years the names of the count columns, and a row    *)
(* [authority, counts].  A record is [time, authority, count], count a     *)
(* double.                                                                 *)
(***************************************************************************)
\* a count cell that gives a record: pd.notna(count) and count != 0 and
\* float(count) > 0
CountGiven(count) == ~count.isna /\ count.n # 0 /\ count.n > 0

\* authority_cols: the count columns whose row 0 cell holds a code other
\* than a total
IsAuthorityCol(code) ==
    /\ ~code.isna
    /\ Strip(code.s) # ""
    /\ ~Contains(Lower(Strip(code.s)), "total")
    /\ Strip(code.s) # "nan"

\* melted_data of one row from column j on
RECURSIVE MeltRow(_, _, _, _)
MeltRow(time, codes, counts, j) ==
    IF j > Len(codes) THEN <<>>
    ELSE (IF IsAuthorityCol(codes[j]) /\ CountGiven(counts[j])
          THEN <<[time |-> time, authority |-> Strip(codes[j].s),
                  count |-> FloatOfInt(counts[j].n)]>>
          ELSE <<>>)
         \o MeltRow(time, codes, counts, j + 1)

MeltTimedRow(time, codes, counts) ==
    IF time = "dropped" THEN <<>> ELSE MeltRow(time, codes, counts, 1)

\* melted_data of the rows from row k on
RECURSIVE MeltRows(_, _, _)
MeltRows(codes, rows, k) ==
    IF k > Len(rows) THEN <<>>
    ELSE MeltTimedRow(illinois_time(rows[k].cell), codes, rows[k].counts)
         \o MeltRows(codes, rows, k + 1)

\* the records of the monthly workbook; none when Sheet2 has no row under
\* the codes
process_monthly_data(book) ==
    IF book.sheet2.rows = <<>> THEN <<>>
    ELSE MeltRows(book.sheet2.codes, book.sheet2.rows, 1)

\* an annual count spread over the 12 months of its year
YearRecords(year, authority, n) ==
    [month \in 1..12 |->
        [time |-> FormatTime(year, month), authority |-> authority,
         count |-> FloatDiv12(n)]]

\* the records of one row of a yearly sheet from column j on
RECURSIVE YearlyRow(_, _, _, _, _)
YearlyRow(authority, years, counts, exclude_years, j) ==
    IF j > Len(years) THEN <<>>
    ELSE (IF /\ 2000 <= years[j] /\ years[j] <= 2030
             /\ years[j] \notin exclude_years
             /\ CountGiven(counts[j])
          THEN YearRecords(years[j], authority, counts[j].n)
          ELSE <<>>)
         \o YearlyRow(authority, years, counts, exclude_years, j + 1)

\* the records of the rows of a yearly sheet from row k on
RECURSIVE YearlyRows(_, _, _, _)
YearlyRows(years, rows, exclude_years, k) ==
    IF k > Len(rows) THEN <<>>
    ELSE (IF rows[k].authority.isna \/ Strip(rows[k].authority.s) = "" THEN <<>>
          ELSE YearlyRow(Strip(rows[k].authority.s), years, rows[k].counts,
                         exclude_years, 1))
         \o YearlyRows(years, rows, exclude_years, k + 1)

\* the records of the yearly workbook from sheet k on: a sheet named as a
\* total, or without an Authority column, is skipped
RECURSIVE YearlySheets(_, _, _)
YearlySheets(sheets, exclude_years, k) ==
    IF k > Len(sheets) THEN <<>>
    ELSE (IF \/ Contains(Lower(sheets[k].name), "total")
             \/ ~Contains(Lower(sheets[k].header), "authority")
          THEN <<>>
          ELSE YearlyRows(sheets[k].years, sheets[k].rows, exclude_years, 1))
         \o YearlySheets(sheets, exclude_years, k + 1)

\* a second pass that leaves no year out
process_yearly_data_all_years(book, exclude_years) == YearlySheets(book.sheets, {}, 1)

process_yearly_data(book, exclude_years) == YearlySheets(book.sheets, exclude_years, 1)

IsMonthlyName(name) == Contains(Lower(name), "revised") \/ Contains(Lower(name), "9-19")

IsYearlyName(name) ==
    Contains(Lower(name), "sanction stats") \/ Contains(Lower(name), "2000 to 2023")

\* first pass: the records of the monthly workbooks
RECURSIVE MonthlyPass(_, _)
MonthlyPass(files, k) ==
    IF k > Len(files) THEN <<>>
    ELSE (IF IsMonthlyName(files[k].name) THEN process_monthly_data(files[k]) ELSE <<>>)
         \o MonthlyPass(files, k + 1)

\* monthly_years: the years of the monthly records
YearsOf(records) == {ToInt(SubSeq(records[k].time, 1, 4)) : k \in 1..Len(records)}

\* second pass: the records of the yearly workbooks, the monthly years
\* left out
RECURSIVE YearlyPass(_, _, _)
YearlyPass(files, exclude_years, k) ==
    IF k > Len(files) THEN <<>>
    ELSE (IF IsYearlyName(files[k].name)
          THEN process_yearly_data(files[k], exclude_years) ELSE <<>>)
         \o YearlyPass(files, exclude_years, k + 1)

TwoPasses(files, monthly) == monthly \o YearlyPass(files, YearsOf(monthly), 1)

\* combined_df
CombinedRecords(files) == TwoPasses(files, MonthlyPass(files, 1))

\* the counts of a sequence of rows
CountsOf(rows) == [k \in 1..Len(rows) |-> rows[k].count]

\* groupby(...)['count'].sum() of one group.  pandas adds a group with a
\* compensated sum, which for a group of at most two rows is the rounded
\* sum of the two; the workbooks below give no larger group.
GroupSum(rows) == SequentialSum(CountsOf(rows))

\* the rows of grouped of one time: a row per authority of the records of
\* that time, with the summed count and the category of the authority
RECURSIVE GroupsOfTime(_, _)
GroupsOfTime(rows, authorities) ==
    IF authorities = {} THEN <<>>
    ELSE LET authority == CHOOSE x \in authorities : TRUE
         IN  <<[time |-> rows[1].time, authority |-> authority,
                count |-> GroupSum(SelectSeq(rows, LAMBDA r : r.authority = authority)),
                category |-> infer_category_for_illinois_code(Str(authority))]>>
             \o GroupsOfTime(rows, authorities \ {authority})

GroupsOfRows(rows) == GroupsOfTime(rows, {rows[k].authority : k \in 1..Len(rows)})

\* grouped, from the k-th time on
RECURSIVE GroupedFrom(_, _, _)
GroupedFrom(records, times, k) ==
    IF k > Len(times) THEN <<>>
    ELSE GroupsOfRows(SelectSeq(records, LAMBDA r : r.time = times[k]))
         \o GroupedFrom(records, times, k + 1)

\* grouped: a row per (time, authority) of the records, in time order
Grouped(records) ==
    GroupedFrom(records, SortTimes({records[k].time : k \in 1..Len(records)}), 1)

\* agg_df pivoted: the cell of time t and category cat, 0 when grouped has
\* no such row
AggCell(grouped, t, cat) ==
    GroupSum(SelectSeq(grouped, LAMBDA g : g.time = t /\ g.category = cat))

\* a row of pivot_df with its total: the sum of the four categories from
\* left to right
RowWithTotal(time, ftp, fta, road_safety, other) ==
    [time |-> time, FTP |-> ftp, FTA |-> fta, road_safety |-> road_safety,
     Other |-> other,
     total |-> FloatAdd(FloatAdd(FloatAdd(ftp, fta), road_safety), other)]

\* pivot_df: a row per time, in ascending order
RECURSIVE PivotRows(_, _, _)
PivotRows(grouped, times, k) ==
    IF k > Len(times) THEN <<>>
    ELSE <<RowWithTotal(times[k],
                        AggCell(grouped, times[k], "FTP"),
                        AggCell(grouped, times[k], "FTA"),
                        AggCell(grouped, times[k], "road_safety"),
                        AggCell(grouped, times[k], "Other"))>>
         \o PivotRows(grouped, times, k + 1)

PivotOfGrouped(grouped) ==
    PivotRows(grouped, SortTimes({grouped[k].time : k \in 1..Len(grouped)}), 1)

\* DataFrame.sum of one column: the numeric library adds the cells from
\* left to right or in numpy's pairwise order
SumOrders == {"sequential", "pairwise"}

ColumnSum(order, xs) ==
    IF order = "pairwise" THEN PairwiseSum(xs) ELSE SequentialSum(xs)

\* totals_row: the sum of every column, the total column included, over
\* the rows of pivot_df
TotalsRow(pivot, order) ==
    [time |-> "total",
     FTP |-> ColumnSum(order, [k \in 1..Len(pivot) |-> pivot[k].FTP]),
     FTA |-> ColumnSum(order, [k \in 1..Len(pivot) |-> pivot[k].FTA]),
     road_safety |-> ColumnSum(order, [k \in 1..Len(pivot) |-> pivot[k].road_safety]),
     Other |-> ColumnSum(order, [k \in 1..Len(pivot) |-> pivot[k].Other]),
     total |-> ColumnSum(order, [k \in 1..Len(pivot) |-> pivot[k].total])]

\* output_df before the conversion to integers
WithTotals(pivot, order) == pivot \o <<TotalsRow(pivot, order)>>

IllinoisPivot(files, order) ==
    WithTotals(PivotOfGrouped(Grouped(CombinedRecords(files))), order)

\* output_df[col].astype(int) of every column of a row
IntRow(row) ==
    [time |-> row.time, FTP |-> TruncToInt(row.FTP), FTA |-> TruncToInt(row.FTA),
     road_safety |-> TruncToInt(row.road_safety), Other |-> TruncToInt(row.Other),
     total |-> TruncToInt(row.total)]

\* the table written to Illinois.csv
IllinoisTable(output_df) == [k \in 1..Len(output_df) |-> IntRow(output_df[k])]

MaxAnnual == 12

\* the cells of an annual count column: empty, a refund, zero, small counts
\* and a count that twelve divides
AnnualCounts == {NaNNum} \cup {Num(n) : n \in -1..MaxAnnual} \cup {Num(1200)}

\* the second row of the yearly sheet: another category, a zero, the first
\* row's authority again, another authority of its category, no authority
SecondRows ==
    {[authority |-> Str("6206A1"), count |-> Num(6)],
     [authority |-> Str("6206A1"), count |-> Num(0)],
     [authority |-> Str(" 6-206 "), count |-> Num(1)],
     [authority |-> Str("6-206B"), count |-> Num(7)],
     [authority |-> NaN, count |-> Num(5)]}

\* the sheets of a yearly workbook: counts of 2021 and 2022 and of a year
\* out of range, a totals sheet, a sheet without an Authority column
YearlySheetsOf(n2021, second, n2022) ==
    <<[name |-> "Sanctions", header |-> "Authority", years |-> <<2021, 2022, 2031>>,
       rows |-> <<[authority |-> Str("6-206"), counts |-> <<n2021, n2022, Num(9)>>],
                  [authority |-> second.authority,
                   counts |-> <<second.count, NaNNum, NaNNum>>]>>],
      [name |-> "Totals", header |-> "Authority", years |-> <<2021>>,
       rows |-> <<[authority |-> Str("6-206"), counts |-> <<Num(99)>>]>>],
      [name |-> "Notes", header |-> "Comment", years |-> <<2021>>,
       rows |-> <<[authority |-> Str("6-206"), counts |-> <<Num(99)>>]>>]>>

NoSheet2 == [codes |-> <<>>, rows |-> <<>>]

YearlyBooks ==
    {[name |-> name, sheet2 |-> NoSheet2, sheets |-> YearlySheetsOf(n2021, second, n2022)] :
        name \in {"2000 to 2023.xlsx", "Sanction Stats.xlsx"},
        n2021 \in AnnualCounts, second \in SecondRows, n2022 \in {NaNNum, Num(5)}}

\* Sheet2 of a monthly workbook: no row under the codes, a month of 2021, a
\* row with only the year 2022, a row with no date
MonthlySheet2s ==
    {[codes |-> <<Str("6-206"), Str("Total")>>, rows |-> <<>>],
     [codes |-> <<Str("6-206"), Str("Total")>>,
      rows |-> <<[cell |-> Str("01/2021"), counts |-> <<Num(3), Num(3)>>]>>],
     [codes |-> <<Str("6206A2"), NaN>>,
      rows |-> <<[cell |-> Str("2022"), counts |-> <<Num(2), Num(2)>>]>>],
     [codes |-> <<Str("6-206"), Str("Total")>>,
      rows |-> <<[cell |-> Str("n/a"), counts |-> <<Num(4), Num(4)>>]>>]}

MonthlyBooks ==
    {[name |-> "FOIA 9-19-2023.xlsx", sheet2 |-> sheet2, sheets |-> <<>>] :
        sheet2 \in MonthlySheet2s}

OtherBook == [name |-> "notes.xlsx", sheet2 |-> NoSheet2, sheets |-> <<>>]

\* the workbooks of the Illinois folder, sorted by name
IllinoisInputs ==
    {<<y>> : y \in YearlyBooks}
    \cup {<<mb>> : mb \in MonthlyBooks}
    \cup {<<OtherBook>>}
    \cup {IF y.name = "Sanction Stats.xlsx" THEN <<mb, y, OtherBook>> ELSE <<y, mb>> :
             y \in {b \in YearlyBooks : b.sheets[1].rows[1].counts[1] \in {Num(7), Num(1200)}},
             mb \in MonthlyBooks}

IllinoisInit ==
    /\ ClassifyIdle /\ TimeIdle /\ ColoradoIdle /\ NevadaIdle /\ ProcessAllIdle /\ ExtraIdle
    /\ ifiles \in IllinoisInputs
    /\ iorder \in SumOrders
    /\ istate = "none"
    /\ ipivot = <<>>
    /\ itable = <<>>

\* the job runs to its end and writes Illinois.csv
IllinoisWrite ==
    /\ istate = "none" /\ ifiles # <<>>
    /\ CombinedRecords(ifiles) # <<>>
    /\ ipivot' = IllinoisPivot(ifiles, iorder)
    /\ itable' = IllinoisTable(ipivot')
    /\ istate' = "written"
    /\ UNCHANGED <<ifiles, iorder>>
    /\ UNCHANGED <<cvars, tvars, kvars, nvars, pvars, xvars>>

\* no workbook gave a record: "No data was extracted from any files"
IllinoisFail ==
    /\ istate = "none" /\ ifiles # <<>>
    /\ CombinedRecords(ifiles) = <<>>
    /\ istate' = "error"
    /\ UNCHANGED <<ifiles, iorder, ipivot, itable>>
    /\ UNCHANGED <<cvars, tvars, kvars, nvars, pvars, xvars>>

IllinoisNext == IllinoisWrite \/ IllinoisFail

SpecIllinois == IllinoisInit /\ [][IllinoisNext]_vars

(***************************************************************************)
(* Properties of the Illinois job                                          *)
(***************************************************************************)
\* C4: in every row of the table as written, the totals row included, the
\* total column equals the sum of the row's category columns, fractional
\* weights or not.
C4_RowTotalIsCategorySum ==
    istate = "written" =>
        \A k \in 1..Len(itable) :
            itable[k].total = itable[k].FTP + itable[k].FTA
                              + itable[k].road_safety + itable[k].Other

\* the sum of a column of the written table over the rows before the
\* totals row
WrittenColumnSum(column) == SumOver(1..(Len(column) - 1), column)

\* C5: in the table as written, each value of the row with time "total"
\* equals the sum of its column over the other rows of the written table.
C5_TotalsRowIsColumnSum ==
    istate = "written" =>
        LET n == Len(itable)
        IN  /\ itable[n].time = "total"
            /\ itable[n].FTP = WrittenColumnSum([k \in 1..n |-> itable[k].FTP])
            /\ itable[n].FTA = WrittenColumnSum([k \in 1..n |-> itable[k].FTA])
            /\ itable[n].road_safety
                   = WrittenColumnSum([k \in 1..n |-> itable[k].road_safety])
            /\ itable[n].Other = WrittenColumnSum([k \in 1..n |-> itable[k].Other])
            /\ itable[n].total = WrittenColumnSum([k \in 1..n |-> itable[k].total])

\* the folder holds one yearly workbook whose only count is the annual
\* total N of authority 6-206 for 2021
C8_OnlyAnnualTotal(N) ==
    /\ Len(ifiles) = 1
    /\ ifiles[1] \in YearlyBooks
    /\ ifiles[1].sheets[1].rows[1].counts = <<Num(N), NaNNum, Num(9)>>
    /\ ifiles[1].sheets[1].rows[2].authority.isna

\* C8: an annual total N gives the 12 months of its year a weight of N/12
\* each, and the weights add up to N: the totals row as written holds N;
\* for N = 1200 each monthly cell is 100 and the written total is 1200.
C8_AnnualTotalConserved ==
    \A N \in (1..MaxAnnual) \cup {1200} :
        (istate = "written" /\ C8_OnlyAnnualTotal(N)) =>
            /\ Len(ipivot) = 13
            /\ \A month \in 1..12 :
                   /\ ipivot[month].time = FormatTime(2021, month)
                   /\ ipivot[month].FTP = FloatDiv12(N)
                   /\ ipivot[month].total = FloatDiv12(N)
            /\ itable[13].FTP = N
            /\ itable[13].total = N
            /\ N = 1200 => \A month \in 1..12 : itable[month].FTP = 100

\* the rows of a table whose time lies in the year
RowsOfYear(table, year) ==
    SelectSeq(table, LAMBDA r : r.time # "total" /\ ToInt(SubSeq(r.time, 1, 4)) = year)

\* the table the job writes from the monthly workbooks of the folder alone
MonthlyOnlyTable(files, order) ==
    IllinoisTable(IllinoisPivot(SelectSeq(files, LAMBDA f : IsMonthlyName(f.name)), order))

\* C18: whatever the order of the files, the yearly workbooks contribute no
\* record to a year for which the monthly workbooks gave a record: the rows
\* of such a year are the rows the monthly workbooks alone give.
C18_MonthlyYearsExcluded ==
    istate = "written" =>
        \A year \in YearsOf(MonthlyPass(ifiles, 1)) :
            RowsOfYear(itable, year) = RowsOfYear(MonthlyOnlyTable(ifiles, iorder), year)

\* a folder whose yearly workbook comes first and has counts for 2021 and
\* 2022, with a monthly workbook that covers a year: the table has rows of a
\* year taken from the yearly workbook and rows of the monthly year
C18_Witness ==
    /\ istate = "written" /\ Len(ifiles) = 2
    /\ IsYearlyName(ifiles[1].name) /\ IsMonthlyName(ifiles[2].name)
    /\ YearsOf(MonthlyPass(ifiles, 1)) # {}
    /\ \E year \in {2021, 2022} :
          /\ year \notin YearsOf(MonthlyPass(ifiles, 1))
          /\ RowsOfYear(itable, year) # <<>>
    /\ \E year \in YearsOf(MonthlyPass(ifiles, 1)) : RowsOfYear(itable, year) # <<>>

(***************************************************************************)
(* Nevada job: snapshot reports -> one dated row and one "total" row per   *)
(* report                                                                  *)
(*                                                                         *)
(* A report is the sequence of the lines of its text file.                 *)
(***************************************************************************)
\* content, the lines joined by a blank (a line break is white space to the
\* AS-OF DATE pattern)
RECURSIVE JoinLines(_)
JoinLines(lines) ==
    IF lines = <<>> THEN ""
    ELSE IF Len(lines) = 1 THEN lines[1]
    ELSE lines[1] \o " " \o JoinLines(Tail(lines))

IsDigitAt(line, i) == IndexIn(SubSeq(line, i, i), Digits) # 0

\* re.findall(r'\d+', line) is not empty
HasNumber(line) == \E i \in 1..Len(line) : IsDigitAt(line, i)

\* int(numbers[-1]): the last run of digits of the line
LastNumber(line) ==
    LET last == CHOOSE e \in 1..Len(line) :
                    IsDigitAt(line, e) /\ \A j \in (e + 1)..Len(line) : ~IsDigitAt(line, j)
        first == CHOOSE b \in 1..last :
                     /\ \A j \in b..last : IsDigitAt(line, j)
                     /\ b = 1 \/ ~IsDigitAt(line, b - 1)
    IN  ToInt(SubSeq(line, first, last))

NevadaOtherStatuses ==
    <<"VALID", "EXPIRED", "SURRENDER", "CLEARED", "DECEASED", "CANCELLED", "DENIED",
      "OTHER", "PENDING">>

\* a scan that knows the two sections only: a line that names another
\* licence status opens nothing
SectionOpenedStatusIgnored(line_upper) ==
    IF Contains(line_upper, "SUSPENDED") /\ ~Contains(line_upper, "LICENSE STATUS")
    THEN "suspended"
    ELSE IF Contains(line_upper, "REVOKED") /\ ~Contains(line_upper, "LICENSE STATUS")
    THEN "revoked"
    ELSE ""

\* the section a line opens: "suspended", "revoked", "other" for another
\* licence status, "" for a line that opens none
SectionOpened(line_upper) ==
    IF Contains(line_upper, "SUSPENDED") /\ ~Contains(line_upper, "LICENSE STATUS")
    THEN "suspended"
    ELSE IF Contains(line_upper, "REVOKED") /\ ~Contains(line_upper, "LICENSE STATUS")
    THEN "revoked"
    ELSE IF AnyIn(NevadaOtherStatuses, line_upper) THEN "other"
    ELSE ""

\* the scan of the lines from line k on: section is the section the scan is
\* in, count is suspended_count + revoked_count so far
RECURSIVE ScanLines(_, _, _, _)
ScanLines(lines, k, section, count) ==
    IF k > Len(lines) THEN count
    ELSE LET opened == SectionOpened(Upper(lines[k]))
         IN  IF opened # "" THEN ScanLines(lines, k + 1, opened, count)
             ELSE IF section \in {"suspended", "revoked"} /\ HasNumber(lines[k])
             THEN ScanLines(lines, k + 1, section, count + LastNumber(lines[k]))
             ELSE ScanLines(lines, k + 1, section, count)

NevadaRow(time, count) ==
    [time |-> time, FTP |-> 0, FTA |-> 0, road_safety |-> 0, Child_Support |-> 0,
     Other |-> count, total |-> count]

\* df of one report: the row of the as-of date and the totals row
ReportRows(as_of_date, count) == <<NevadaRow(as_of_date, count), NevadaRow("total", count)>>

parse_nevada_report(lines) ==
    ReportRows(nevada_as_of_date(JoinLines(lines)), ScanLines(lines, 1, "other", 0))

\* combined_df: the rows of every report, in file order
RECURSIVE NevadaTable(_)
NevadaTable(files) ==
    IF files = <<>> THEN <<>>
    ELSE parse_nevada_report(Head(files)) \o NevadaTable(Tail(files))

\* first lines of a report: with an AS-OF date, and without one
NevadaHeaders ==
    {"REPORT AS-OF DATE: 2023-06-30 PAGE 1", "AS-OF DATE  :2022-12-01",
     "LICENSE STATUS REPORT"}

\* the lines under the header: licence status sections and their class rows
NevadaBodies ==
    {<<"SUSPENDED", "CLASS C 12 7 19">>,
     <<"REVOKED", "CLASS A 3">>,
     <<"VALID", "CLASS C 100", "Suspended", "CLASS C 5", "CLASS M 2", "REVOKED", "CLASS C 4">>,
     <<"LICENSE STATUS SUSPENDED", "CLASS C 8">>,
     <<"SUSPENDED", "CLASS C 6", "EXPIRED", "CLASS C 50">>,
     <<"SUSPENDED", "CLASS C", "">>}

NevadaReports == {<<h>> \o b : h \in NevadaHeaders, b \in NevadaBodies}

\* the reports of Nevada/Data in the order of their file names: none, or up
\* to MaxFiles of them
NevadaInputs == UNION {[1..n -> NevadaReports] : n \in 0..MaxFiles}

NevadaInit ==
    /\ ClassifyIdle /\ TimeIdle /\ ColoradoIdle /\ IllinoisIdle /\ ProcessAllIdle /\ ExtraIdle
    /\ nfiles \in NevadaInputs
    /\ nstate = "none"
    /\ ntable = <<>>

\* the job runs to its end and writes Nevada.csv
NevadaWrite ==
    /\ nstate = "none" /\ nfiles # <<>>
    /\ ntable' = NevadaTable(nfiles)
    /\ nstate' = "written"
    /\ UNCHANGED nfiles
    /\ UNCHANGED <<cvars, tvars, kvars, ivars, pvars, xvars>>

\* no .txt file in the folder: FileNotFoundError
NevadaFail ==
    /\ nstate = "none" /\ nfiles = <<>>
    /\ nstate' = "error"
    /\ UNCHANGED <<nfiles, ntable>>
    /\ UNCHANGED <<cvars, tvars, kvars, ivars, pvars, xvars>>

NevadaNext == NevadaWrite \/ NevadaFail

SpecNevada == NevadaInit /\ [][NevadaNext]_vars

(***************************************************************************)
(* Properties of the Nevada job                                            *)
(***************************************************************************)
\* C11: a source with no resolvable date information (the Nevada snapshot
\* report) is represented only by rows whose time is "total", no dated row
\* is invented; in every row FTP, FTA, road_safety and Child_Support are 0
\* and Other equals total.
C11_OnlyTotalRow ==
    nstate = "written" =>
        \A i \in 1..Len(ntable) :
            /\ ntable[i].time = "total"
            /\ ntable[i].FTP = 0 /\ ntable[i].FTA = 0
            /\ ntable[i].road_safety = 0 /\ ntable[i].Child_Support = 0
            /\ ntable[i].Other = ntable[i].total

\* the rows other than "total" rows are in ascending order of time and a
\* "total" row is nowhere but at the end
OrderedWithTotalLast(table) ==
    /\ \A i, j \in 1..Len(table) :
          (i < j /\ table[i].time # "total" /\ table[j].time # "total")
              => TimeKey(table[i].time) <= TimeKey(table[j].time)
    /\ \A i \in 1..Len(table) : table[i].time = "total" => i = Len(table)

\* C19: in the written table the dated rows are in ascending order of time
\* and the "total" row is the last row, for any number of input files.
C19_AscendingTotalLast == nstate = "written" => OrderedWithTotalLast(ntable)

(***************************************************************************)
(* ProcessAll: every job in turn, then the combined summary All.csv        *)
(***************************************************************************)
\* script name -> state name, in the order of the dictionary
STATE_SCRIPTS ==
    <<<<"Colorado", "Colorado">>, <<"Illinois", "Illinois">>, <<"Maryland", "Maryland">>,
      <<"Minnesota", "Minnesota">>, <<"Nevada", "Nevada">>, <<"NewMexico", "New Mexico">>,
      <<"NewYork", "New York">>, <<"Oregon", "Oregon">>, <<"Texas", "Texas">>,
      <<"Utah", "Utah">>, <<"Vermont", "Vermont">>, <<"Virginia", "Virginia">>,
      <<"Washington", "Washington">>>>

ScriptName(idx) == STATE_SCRIPTS[idx][1]

StateName(idx) == STATE_SCRIPTS[idx][2]

NoneDf == [isnone |-> TRUE, rows |-> <<>>]

Df(rows) == [isnone |-> FALSE, rows |-> rows]

\* what run_state_script returns: job is what the job did ("written": it ran
\* to its to_csv, whose frame is captured; otherwise the exception it raised),
\* table the frame it wrote, csv the file Outputs/<script>.csv found after an
\* exception ("absent", "readable" or "unreadable") and previous its content
run_state_script(job, table, csv, previous) ==
    IF job = "written" THEN Df(table)
    ELSE IF csv = "readable" THEN Df(previous)
    ELSE NoneDf

\* pd.to_datetime(time, format='%Y-%m', errors='coerce'): 12 * year + month,
\* or 0 for NaT
MonthIndex(time) ==
    LET n == Len(time)
        ok == /\ n \in {6, 7}
              /\ IsDigits(SubSeq(time, 1, 4)) /\ SubSeq(time, 5, 5) = "-"
              /\ IsDigits(SubSeq(time, 6, n))
              /\ ToInt(SubSeq(time, 6, n)) \in 1..12
        at == 12 * ToInt(SubSeq(time, 1, 4)) + ToInt(SubSeq(time, 6, n))
    IN  IF ok /\ at >= 12 * 1677 + 10 /\ at <= 12 * 2262 + 4 THEN at ELSE 0

YearOfIndex(at) == (at - 1) \div 12

\* None when no row has a time of the form YYYY-MM
get_year_range(rows) ==
    LET dated == {MonthIndex(rows[i].time) : i \in {j \in 1..Len(rows) : rows[j].time # "total"}}
                     \ {0}
        first == CHOOSE a \in dated : \A b \in dated : a <= b
        last  == CHOOSE a \in dated : \A b \in dated : b <= a
    IN  IF dated = {} THEN "None"
        ELSE IntToStr(YearOfIndex(first)) \o "-" \o IntToStr(YearOfIndex(last))

ColumnOf(row, col) == IF col \in DOMAIN row THEN row[col] ELSE 0

RECURSIVE SumColumn(_, _)
SumColumn(rows, col) ==
    IF rows = <<>> THEN 0 ELSE ColumnOf(Head(rows), col) + SumColumn(Tail(rows), col)

\* a mapping that takes the child support out of the fees
map_categories_to_output_fees_without_child_support(rows) ==
    LET totals == SelectSeq(rows, LAMBDA r : r.time = "total")
        value(col) == IF totals # <<>> THEN ColumnOf(totals[1], col) ELSE SumColumn(rows, col)
        child_support == IF "child_support" \in DOMAIN rows[1]
                         THEN value("child_support") ELSE value("Child_Support")
    IN  IF rows = <<>> THEN [isnone |-> TRUE]
        ELSE [isnone |-> FALSE, Driving |-> value("Other"),
              Fees |-> value("FTP") - child_support,
              FTA |-> value("FTA"), Child_support |-> child_support,
              Road_safety |-> value("road_safety")]

\* the first row whose time is "total" when there is one, the sums over the
\* rows otherwise; None for a frame with no row at all
map_categories_to_output(rows) ==
    LET totals == SelectSeq(rows, LAMBDA r : r.time = "total")
        value(col) == IF totals # <<>> THEN ColumnOf(totals[1], col) ELSE SumColumn(rows, col)
    IN  IF rows = <<>> THEN [isnone |-> TRUE]
        ELSE [isnone |-> FALSE, Driving |-> value("Other"), Fees |-> value("FTP"),
              FTA |-> value("FTA"),
              Child_support |-> IF "child_support" \in DOMAIN rows[1]
                                THEN value("child_support") ELSE value("Child_Support"),
              Road_safety |-> value("road_safety")]

\* the row of All.csv of one state
StateData(idx, rows) ==
    LET years_str == get_year_range(rows)
        category_data == map_categories_to_output(rows)
    IN  [State |-> StateName(idx),
         Years |-> IF years_str = "None" THEN "Unknown" ELSE years_str,
         Driving |-> category_data.Driving, Fees |-> category_data.Fees,
         FTA |-> category_data.FTA, Child_support |-> category_data.Child_support,
         Road_safety |-> category_data.Road_safety]

\* the state names in ascending order of their characters, as sort_values
\* compares them
SortedStateNames ==
    <<"Colorado", "Illinois", "Maryland", "Minnesota", "Nevada", "New Mexico", "New York",
      "Oregon", "Texas", "Utah", "Vermont", "Virginia", "Washington">>

StateRank(name) == CHOOSE k \in 1..Len(SortedStateNames) : SortedStateNames[k] = name

\* df_all.sort_values('State')
RECURSIVE SortByState(_)
SortByState(data) ==
    IF data = <<>> THEN <<>>
    ELSE LET k == CHOOSE i \in 1..Len(data) :
                      \A j \in 1..Len(data) : StateRank(data[i].State) <= StateRank(data[j].State)
         IN  <<data[k]>> \o SortByState(SubSeq(data, 1, k - 1) \o SubSeq(data, k + 1, Len(data)))

\* a loop that gives up at the first state without data
AfterFailedBreak(idx) == Len(STATE_SCRIPTS) + 1

\* the position of the job run after the one at idx when that one yielded no
\* table: the loop continues with the next one
AfterFailed(idx) == idx + 1

\* the table each job writes when it runs to its end
JobTable(idx) ==
    CASE ScriptName(idx) = "Nevada" ->
            NevadaTable(<<<<"REPORT AS-OF DATE: 2023-06-30 PAGE 1", "SUSPENDED", "CLASS C 12 7 19">>>>)
      [] ScriptName(idx) = "NewMexico" ->
            <<[time |-> "total", FTP |-> 3, FTA |-> 1, road_safety |-> 4, Child_Support |-> 2,
               Other |-> 5, total |-> 15]>>
      [] ScriptName(idx) \in {"Colorado", "Illinois"} ->
            <<[time |-> "2021-12", FTP |-> idx, FTA |-> 4, road_safety |-> 0, Other |-> 1,
               total |-> idx + 5],
              [time |-> "2022-01", FTP |-> 2, FTA |-> 4, road_safety |-> 3, Other |-> 0,
               total |-> 9],
              [time |-> "total", FTP |-> idx + 2, FTA |-> 8, road_safety |-> 3, Other |-> 1,
               total |-> idx + 14]>>
      [] OTHER ->
            <<[time |-> "2015-03", FTP |-> idx, FTA |-> 1, road_safety |-> 2, Child_Support |-> 1,
               Other |-> 3, total |-> idx + 7],
              [time |-> "total", FTP |-> idx, FTA |-> 1, road_safety |-> 2, Child_Support |-> 1,
               Other |-> 3, total |-> idx + 7]>>

\* what a job does: it runs to its end, or raises its missing-source error,
\* or raises another error
JobOutcomes == {"written", "FileNotFoundError", "ValueError"}

\* Outputs/<script>.csv as a failed job leaves it
CsvStates == {"absent", "readable", "unreadable"}

ProcessAllInit ==
    /\ ClassifyIdle /\ TimeIdle /\ ColoradoIdle /\ IllinoisIdle /\ NevadaIdle /\ ExtraIdle
    /\ pidx = 1 /\ pdata = <<>> /\ pfailed = <<>>
    /\ plast = [job |-> "none", csv |-> "absent"]
    /\ pattempted = <<>> /\ pyielded = {} /\ pall = <<>> /\ pphase = "loop"

\* Outputs/<script>.csv as an earlier run left it: the table the job writes,
\* or, for one script, a file of an older layout that has no time column
PreviousCsvs(idx) ==
    {JobTable(idx)} \cup
        (IF ScriptName(idx) = "Texas"
         THEN {<<[month |-> "2015-03", FTP |-> 9, FTA |-> 1, road_safety |-> 2, Other |-> 3]>>}
         ELSE {})

\* df['time'] raises KeyError('time') on a frame without that column
RaisesKeyError(rows) == \E i \in 1..Len(rows) : "time" \notin DOMAIN rows[i]

\* a handler that reports the exception and records nothing
record_failure_not(failed, state_name, reason) == failed

\* failed_states.append((state_name, reason))
record_failure(failed, state_name, reason) == Append(failed, <<state_name, reason>>)

\* one turn of the loop over STATE_SCRIPTS: the job is run, and its state is
\* added to all_state_data or to failed_states
ProcessState ==
    /\ pphase = "loop" /\ pidx <= Len(STATE_SCRIPTS)
    /\ \E job \in JobOutcomes, csv \in CsvStates, previous \in PreviousCsvs(pidx) :
          LET df == run_state_script(job, JobTable(pidx), csv, previous)
          IN  /\ plast' = [job |-> job, csv |-> IF job = "written" THEN "absent" ELSE csv]
              /\ pattempted' = Append(pattempted, ScriptName(pidx))
              /\ pyielded' = IF df.isnone \/ RaisesKeyError(df.rows)
                             THEN pyielded ELSE pyielded \cup {ScriptName(pidx)}
              /\ IF df.isnone \/ Len(df.rows) = 0
                 THEN /\ pfailed' = Append(pfailed, <<StateName(pidx), "No data">>)
                      /\ pidx' = AfterFailed(pidx)
                      /\ UNCHANGED pdata
                 ELSE IF RaisesKeyError(df.rows)
                 THEN /\ pfailed' = record_failure(pfailed, StateName(pidx), "'time'")
                      /\ pidx' = AfterFailed(pidx)
                      /\ UNCHANGED pdata
                 ELSE IF map_categories_to_output(df.rows).isnone
                 THEN /\ pfailed' =
                            Append(pfailed, <<StateName(pidx), "Could not extract category data">>)
                      /\ pidx' = AfterFailed(pidx)
                      /\ UNCHANGED pdata
                 ELSE /\ pdata' = Append(pdata, StateData(pidx, df.rows))
                      /\ pidx' = pidx + 1
                      /\ UNCHANGED pfailed
    /\ UNCHANGED <<pall, pphase>>
    /\ UNCHANGED <<cvars, tvars, kvars, ivars, nvars, xvars>>

\* KeyboardInterrupt while a job runs: the loop is left
ProcessInterrupt ==
    /\ pphase = "loop" /\ pidx <= Len(STATE_SCRIPTS)
    /\ pphase' = "interrupted"
    /\ pattempted' = Append(pattempted, ScriptName(pidx))
    /\ UNCHANGED <<pidx, pdata, pfailed, plast, pyielded, pall>>
    /\ UNCHANGED <<cvars, tvars, kvars, ivars, nvars, xvars>>

\* after the loop: All.csv is written when some state has data
ProcessSummary ==
    /\ pphase \in {"loop", "interrupted"}
    /\ pphase = "loop" => pidx > Len(STATE_SCRIPTS)
    /\ pall' = SortByState(pdata)
    /\ pphase' = IF pphase = "loop" THEN "done" ELSE "stopped"
    /\ UNCHANGED <<pidx, pdata, pfailed, plast, pattempted, pyielded>>
    /\ UNCHANGED <<cvars, tvars, kvars, ivars, nvars, xvars>>

ProcessAllNext == ProcessState \/ ProcessInterrupt \/ ProcessSummary

SpecProcessAll == ProcessAllInit /\ [][ProcessAllNext]_vars

\* a turn of the loop, seen by idx alone: the steps of ProcessState
LoopTurn ==
    /\ pphase = "loop" /\ pidx <= Len(STATE_SCRIPTS)
    /\ pidx' \in (pidx + 1)..(Len(STATE_SCRIPTS) + 1)

\* the end of the run, seen by its phase alone: the steps of ProcessSummary
SummaryTurn ==
    /\ pphase \in {"loop", "interrupted"}
    /\ pphase = "loop" => pidx > Len(STATE_SCRIPTS)
    /\ pphase' \in {"done", "stopped"}

\* the run is one sequential program: a turn of the loop and the summary are
\* taken whenever they can be; an interrupt is the user's choice
SpecProcessAllLive ==
    SpecProcessAll /\ WF_pidx(LoopTurn) /\ WF_pphase(SummaryTurn)

(***************************************************************************)
(* Properties of ProcessAll                                                *)
(***************************************************************************)
AllScriptNames == [i \in 1..Len(STATE_SCRIPTS) |-> ScriptName(i)]

\* the state names of the scripts of STATE_SCRIPTS that satisfy keep, in the
\* order of STATE_SCRIPTS
RECURSIVE StatesFrom(_, _)
StatesFrom(idx, keep) ==
    IF idx > Len(STATE_SCRIPTS) THEN <<>>
    ELSE (IF ScriptName(idx) \in keep THEN <<StateName(idx)>> ELSE <<>>)
             \o StatesFrom(idx + 1, keep)

SummaryAndFailuresExact ==
    /\ pattempted = AllScriptNames
    /\ [i \in 1..Len(pdata) |-> pdata[i].State] = StatesFrom(1, pyielded)
    /\ {pall[i] : i \in 1..Len(pall)} = {pdata[i] : i \in 1..Len(pdata)}
    /\ Len(pall) = Len(pdata)
    /\ [i \in 1..Len(pfailed) |-> pfailed[i][1]]
          = StatesFrom(1, {AllScriptNames[i] : i \in 1..Len(AllScriptNames)} \ pyielded)
    /\ \A i \in 1..Len(pfailed) : pfailed[i][2] # ""

\* C13: whichever jobs raise, ProcessAll runs every job of STATE_SCRIPTS in
\* order and, unless the user interrupts it, reaches the end of the run; there
\* the summary holds exactly the states whose run yielded a table, and the
\* other states are listed as failed with their name and a reason.
C13_EveryJobAttempted ==
    /\ <>(pphase \in {"done", "stopped"})
    /\ [](pphase = "done" => SummaryAndFailuresExact)

\* a finished run in which the first job and a later job raised and jobs
\* after them yielded their table
C13_Witness ==
    /\ pphase = "done"
    /\ "Colorado" \notin pyielded /\ "Texas" \notin pyielded
    /\ "Illinois" \in pyielded /\ "Washington" \in pyielded
    /\ Len(pfailed) >= 2 /\ Len(pall) >= 2

\* C20: when the job run last raised its missing-source error, its state is
\* in the failed list and has no row in the summary data.
C20_MissingSourceFailed ==
    plast.job = "FileNotFoundError" =>
        /\ \E i \in 1..Len(pfailed) : pfailed[i][1] = StateName(pidx - 1)
        /\ \A i \in 1..Len(pdata) : pdata[i].State # StateName(pidx - 1)

(***************************************************************************)
(* run_state_script step by step: the patched to_csv, the job, the         *)
(* progress reporter and the three ways to the table                       *)
(***************************************************************************)
\* the calls of run_state_script the main loop makes
MaxCalls == 2

\* the to_csv calls a job makes at most
MaxWrites == 2

\* OUTPUTS_DIR / f"{script_name}.csv"
CsvPath(script_name) == "src/Outputs/" \o script_name \o ".csv"

\* the paths a job passes to to_csv: its own output file, another file of
\* the Outputs directory, a file elsewhere
ToCsvPaths(script_name) ==
    {CsvPath(script_name), "src/Outputs/Summary.csv", "src/Temp/" \o script_name \o ".csv"}

\* the frame a job passes to its k-th to_csv call
WrittenFrame(k) == "frame_" \o IntToStr(k)

\* a capture_to_csv that keeps the frame of the first call
capture_to_csv_first(captured_df, path, frame) ==
    IF path # "None" /\ Contains(path, "Outputs") /\ captured_df = "None" THEN frame
    ELSE captured_df

\* captured_df after capture_to_csv(self, path); "None" is a call without path
capture_to_csv(captured_df, path, frame) ==
    IF path # "None" /\ Contains(path, "Outputs") THEN frame ELSE captured_df

\* the variable names looked up in the module, in order
ModuleVarNames == <<"output_df", "df_out", "out", "pivot_df", "combined_df", "df">>

\* a module variable is absent, a DataFrame with a time column ("frame"), a
\* DataFrame without one, or another object
NoModule == [i \in 1..Len(ModuleVarNames) |-> "absent"]

ModuleNamespaces ==
    {NoModule,
     [NoModule EXCEPT ![6] = "frame"],
     [NoModule EXCEPT ![4] = "frame", ![6] = "frame"],
     [NoModule EXCEPT ![1] = "frame_without_time", ![3] = "other", ![5] = "frame", ![6] = "frame"]}

\* Method 2: the first variable that is a DataFrame with a time column
FromModule(module) ==
    LET found == {i \in 1..Len(ModuleVarNames) : module[i] = "frame"}
    IN  IF found = {} THEN "None"
        ELSE "module." \o ModuleVarNames[CHOOSE i \in found : \A j \in found : i <= j]

\* pd.read_csv(csv_path) of a file that exists: the parsed content, or None
\* when the read raises
ReadCsv(csv) == IF csv.state = "readable" THEN "read_csv(" \o csv.content \o ")" ELSE "None"

\* a reporter that does not look at progress_stop
ReporterContinuesAlways(stop) == TRUE

\* while not progress_stop.is_set()
ReporterContinues(stop) == ~stop

RunScriptInit ==
    /\ ClassifyIdle /\ TimeIdle /\ ColoradoIdle /\ IllinoisIdle /\ NevadaIdle /\ ProcessAllIdle
    /\ MapIdle /\ RowCountIdle /\ ParserIdle
    /\ rcall = 0 /\ rpc = "loop" /\ rto_csv = <<>> /\ roriginal = <<>>
    /\ rcaptured = [c \in 1..MaxCalls |-> "None"]
    /\ rstop = [c \in 1..MaxCalls |-> FALSE]
    /\ rrep = [c \in 1..MaxCalls |-> "none"]
    /\ rwrites = <<>> /\ rmodule = NoModule
    /\ rcsv = [state |-> "absent", content |-> "None"] /\ rend = "none"
    /\ rresult = "none" /\ rdata = FALSE /\ rall = [state |-> "none", by |-> <<>>]

\* the main loop calls run_state_script: without the script it returns None;
\* otherwise to_csv is replaced and the reporter thread is started
RunStart ==
    /\ rpc \in {"loop", "returned"} /\ rcall < MaxCalls
    /\ rcall' = rcall + 1
    /\ rwrites' = <<>> /\ rmodule' = NoModule
    /\ \E script_exists \in BOOLEAN, csv \in CsvStates :
          /\ rcsv' = [state |-> csv, content |-> IF csv = "readable" THEN "previous" ELSE "None"]
          /\ IF script_exists
             THEN /\ roriginal' = rto_csv
                  /\ rto_csv' = <<rcall + 1>> \o rto_csv
                  /\ rrep' = [rrep EXCEPT ![rcall + 1] = "running"]
                  /\ rend' = "running" /\ rpc' = "job"
                  /\ rresult' = "none"
             ELSE /\ rresult' = "None"
                  /\ rend' = "not run" /\ rpc' = "returned"
                  /\ roriginal' = rto_csv
                  /\ UNCHANGED <<rto_csv, rrep>>
    /\ UNCHANGED <<rcaptured, rstop, rdata, rall>>
    /\ UNCHANGED <<cvars, tvars, kvars, ivars, nvars, pvars, mvars, hvars, yvars>>

\* the job calls DataFrame.to_csv: every capture_to_csv installed sees the
\* call, then the original writes the file
JobToCsv ==
    /\ rpc = "job" /\ Len(rwrites) < MaxWrites
    /\ \E path \in ToCsvPaths(ScriptName(rcall)) :
          /\ rwrites' = Append(rwrites, <<path, WrittenFrame(Len(rwrites) + 1)>>)
          /\ rcaptured' = [c \in 1..MaxCalls |->
                              IF \E i \in 1..Len(rto_csv) : rto_csv[i] = c
                              THEN capture_to_csv(rcaptured[c], path,
                                                  WrittenFrame(Len(rwrites) + 1))
                              ELSE rcaptured[c]]
          /\ rcsv' = IF path = CsvPath(ScriptName(rcall))
                     THEN [state |-> "readable", content |-> WrittenFrame(Len(rwrites) + 1)]
                     ELSE rcsv
    /\ UNCHANGED <<rcall, rpc, rto_csv, roriginal, rstop, rrep, rmodule, rend, rresult, rdata,
                   rall>>
    /\ UNCHANGED <<cvars, tvars, kvars, ivars, nvars, pvars, mvars, hvars, yvars>>

\* exec_module returns
JobCompletes ==
    /\ rpc = "job"
    /\ \E module \in ModuleNamespaces : rmodule' = module
    /\ rstop' = [rstop EXCEPT ![rcall] = TRUE]
    /\ rend' = "completed" /\ rpc' = "method2"
    /\ UNCHANGED <<rcall, rto_csv, roriginal, rcaptured, rrep, rwrites, rcsv, rresult, rdata,
                   rall>>
    /\ UNCHANGED <<cvars, tvars, kvars, ivars, nvars, pvars, mvars, hvars, yvars>>

\* exec_module raises an Exception
JobRaises ==
    /\ rpc = "job"
    /\ rstop' = [rstop EXCEPT ![rcall] = TRUE]
    /\ rend' = "Exception" /\ rpc' = "handler"
    /\ UNCHANGED <<rcall, rto_csv, roriginal, rcaptured, rrep, rwrites, rmodule, rcsv, rresult,
                   rdata, rall>>
    /\ UNCHANGED <<cvars, tvars, kvars, ivars, nvars, pvars, mvars, hvars, yvars>>

\* KeyboardInterrupt during exec_module: it leaves run_state_script and the
\* main loop
JobInterrupted ==
    /\ rpc = "job"
    /\ rstop' = [rstop EXCEPT ![rcall] = TRUE]
    /\ rend' = "KeyboardInterrupt" /\ rpc' = "interrupted"
    /\ rresult' = "raised"
    /\ UNCHANGED <<rcall, rto_csv, roriginal, rcaptured, rrep, rwrites, rmodule, rcsv, rdata,
                   rall>>
    /\ UNCHANGED <<cvars, tvars, kvars, ivars, nvars, pvars, mvars, hvars, yvars>>

\* after a job that completed: Method 2, the restoration of to_csv, Method 3
\* and the return, after which nothing refers to the call's capture_to_csv
RunReturns ==
    /\ rpc = "method2"
    /\ LET method1 == rcaptured[rcall]
           method2 == IF method1 # "None" THEN method1 ELSE FromModule(rmodule)
           method3 == IF method2 # "None" THEN method2
                      ELSE IF rcsv.state # "absent" THEN ReadCsv(rcsv) ELSE "None"
       IN  /\ rresult' = method3
           /\ rdata' = (rdata \/ method3 # "None")
    /\ rto_csv' = roriginal
    /\ rpc' = "returned"
    /\ rcaptured' = [rcaptured EXCEPT ![rcall] = "None"]
    /\ UNCHANGED <<rcall, roriginal, rstop, rrep, rwrites, rmodule, rcsv, rend, rall>>
    /\ UNCHANGED <<cvars, tvars, kvars, ivars, nvars, pvars, mvars, hvars, yvars>>

\* except Exception: the file of an earlier or of this run, or None
RunHandler ==
    /\ rpc = "handler"
    /\ LET fallback == IF rcsv.state # "absent" THEN ReadCsv(rcsv) ELSE "None"
       IN  /\ rresult' = fallback
           /\ rdata' = (rdata \/ fallback # "None")
    /\ rpc' = "returned"
    /\ UNCHANGED <<rcall, rto_csv, roriginal, rcaptured, rstop, rrep, rwrites, rmodule, rcsv,
                   rend, rall>>
    /\ UNCHANGED <<cvars, tvars, kvars, ivars, nvars, pvars, mvars, hvars, yvars>>

\* after the loop: df_all.to_csv(OUTPUTS_DIR / "All.csv") when some state has
\* data, through whatever to_csv is installed
WriteAll ==
    /\ \/ rpc = "returned" /\ rcall = MaxCalls
       \/ rpc = "interrupted"
    /\ rpc' = "done"
    /\ IF rdata
       THEN /\ rall' = [state |-> "written", by |-> rto_csv]
            /\ rcaptured' = [c \in 1..MaxCalls |->
                                IF \E i \in 1..Len(rto_csv) : rto_csv[i] = c
                                THEN capture_to_csv(rcaptured[c], "src/Outputs/All.csv", "df_all")
                                ELSE rcaptured[c]]
       ELSE /\ rall' = [state |-> "not written", by |-> <<>>]
            /\ UNCHANGED rcaptured
    /\ UNCHANGED <<rcall, rto_csv, roriginal, rstop, rrep, rwrites, rmodule, rcsv, rend, rresult,
                   rdata>>
    /\ UNCHANGED <<cvars, tvars, kvars, ivars, nvars, pvars, mvars, hvars, yvars>>

\* show_progress of call c: one turn of its loop, which ends the thread when
\* the event is set and otherwise prints the elapsed time and sleeps
Reporter(c) ==
    /\ rrep[c] = "running"
    /\ rrep' = [rrep EXCEPT ![c] = IF ReporterContinues(rstop[c]) THEN "running" ELSE "ended"]
    /\ UNCHANGED <<rcall, rpc, rto_csv, roriginal, rcaptured, rstop, rwrites, rmodule, rcsv,
                   rend, rresult, rdata, rall>>
    /\ UNCHANGED <<cvars, tvars, kvars, ivars, nvars, pvars, mvars, hvars, yvars>>

ReporterStep == \E c \in 1..MaxCalls : Reporter(c)

RunScriptNext ==
    \/ RunStart \/ JobToCsv \/ JobCompletes \/ JobRaises \/ JobInterrupted
    \/ RunReturns \/ RunHandler \/ WriteAll \/ ReporterStep

SpecRunScript == RunScriptInit /\ [][RunScriptNext]_vars

\* the reporter is a thread of its own that the scheduler keeps running
SpecRunScriptLive == SpecRunScript /\ \A c \in 1..MaxCalls : WF_rrep(Reporter(c))

(***************************************************************************)
(* Properties of run_state_script                                          *)
(***************************************************************************)
\* C21: when run_state_script has returned, DataFrame.to_csv is the function
\* that was installed before the call.
C21_ToCsvRestored == rpc = "returned" => rto_csv = roriginal

\* every way out of the job execution has set the event of the reporter
\* started for it
ReporterSignalled ==
    \A c \in DOMAIN rrep :
        (rrep[c] # "none" /\ (c < rcall \/ rpc # "job")) => rstop[c]

\* a step of a reporter changes no variable of the main thread
ReporterLeavesResults ==
    [][ReporterStep =>
          UNCHANGED <<rpc, rto_csv, roriginal, rcaptured, rwrites, rmodule, rcsv, rend, rresult,
                      rdata, rall>>]_vars

\* C22: the reporter started for a job is signalled to stop on every way out
\* of the job execution (success, exception, interrupt) and then terminates,
\* and its steps write no variable the result is computed from.
C22_ReporterStopsAndIsAdvisory ==
    /\ []ReporterSignalled
    /\ ReporterLeavesResults
    /\ \A c \in 1..MaxCalls : (rstop[c] ~> rrep[c] = "ended")

\* a call has returned after an exception in its job, the reporter of the
\* call before it was still running during that job and both have ended
C22_Witness ==
    /\ rcall = 2 /\ rpc = "returned" /\ rend = "Exception"
    /\ rrep[1] = "ended" /\ rrep[2] = "ended"

\* the to_csv calls of the job whose path contains 'Outputs'
OutputsWrites(writes) ==
    SelectSeq(writes, LAMBDA w : w[1] # "None" /\ Contains(w[1], "Outputs"))

\* the table the stated precedence chooses for the job that ran
TableByPrecedence ==
    LET captured == OutputsWrites(rwrites)
        file == IF rcsv.state = "readable" THEN "read_csv(" \o rcsv.content \o ")" ELSE "None"
    IN  IF rend = "Exception" THEN file
        ELSE IF captured # <<>> THEN captured[Len(captured)][2]
        ELSE IF \E i \in 1..Len(ModuleVarNames) : rmodule[i] = "frame"
             THEN FromModule(rmodule)
        ELSE file

\* C26: the table of a job that ran is the frame of its most recent to_csv
\* call with 'Outputs' in the path, else the first listed module variable that
\* is a DataFrame with a time column, else the content of
\* Outputs/<script>.csv, else None; after an exception it is the content of
\* that file when it exists and is readable, else None.
C26_TableByPrecedence ==
    (rpc = "returned" /\ rend \in {"completed", "Exception"}) => rresult = TableByPrecedence

\* a job wrote two frames into Outputs and completed: the second is returned
C26_Witness ==
    /\ rpc = "returned" /\ rend = "completed" /\ Len(OutputsWrites(rwrites)) = 2
    /\ rresult = WrittenFrame(2)

(***************************************************************************)
(* map_categories_to_output over the tables a job can hand over            *)
(***************************************************************************)
\* the largest cell of a table row
MaxCell == 2

\* the category columns a table can have, with the position that makes the
\* cells of one row differ
MapColumns == <<"FTP", "FTA", "road_safety", "Other", "Child_Support", "child_support", "total">>

ColumnSets ==
    {{"FTP", "FTA", "road_safety", "Other", "total"},
     {"FTP", "FTA", "road_safety", "Other", "Child_Support", "total"},
     {"FTP", "FTA", "road_safety", "Other", "child_support", "total"},
     {"FTP", "FTA", "road_safety", "Other", "child_support", "Child_Support", "total"},
     {"FTP", "Other", "total"},
     {"FTA", "road_safety", "Child_Support"}}

ColumnRank(col) == CHOOSE k \in 1..Len(MapColumns) : MapColumns[k] = col

\* a row of a table with the columns cols
TableRow(cols, time, v) ==
    [c \in cols \cup {"time"} |-> IF c = "time" THEN time ELSE v * ColumnRank(c) + ColumnRank(c) - 1]

DatedTimes == <<"2021-11", "2021-12">>

\* the dated rows, then the rows whose time is "total"
MapTables ==
    UNION {{[i \in 1..(nd + nt) |->
                 IF i <= nd THEN TableRow(cols, DatedTimes[i], dv[i])
                 ELSE TableRow(cols, "total", tv[i - nd])] :
               dv \in [1..nd -> 0..MaxCell], tv \in [1..nt -> 0..MaxCell]} :
             cols \in ColumnSets, nd \in 0..2, nt \in 0..2}

MapInit ==
    /\ ClassifyIdle /\ TimeIdle /\ ColoradoIdle /\ IllinoisIdle /\ NevadaIdle /\ ProcessAllIdle
    /\ RunScriptIdle /\ RowCountIdle /\ ParserIdle
    /\ mtable \in MapTables /\ mstate = "none" /\ mout = [isnone |-> TRUE]

\* category_data = map_categories_to_output(df)
MapCategories ==
    /\ mstate = "none"
    /\ mstate' = "returned"
    /\ mout' = map_categories_to_output(mtable)
    /\ UNCHANGED mtable
    /\ UNCHANGED <<cvars, tvars, kvars, ivars, nvars, pvars, rvars, hvars, yvars>>

MapNext == MapCategories

SpecMap == MapInit /\ [][MapNext]_vars

\* the rows of the table whose time is "total"
TotalRows(rows) == {i \in 1..Len(rows) : rows[i].time = "total"}

\* the value the stated rule takes for a column: 0 without the column, the
\* cell of the first "total" row when there is one, else the sum over the rows
SourceValue(rows, col) ==
    IF col \notin DOMAIN rows[1] THEN 0
    ELSE IF TotalRows(rows) # {}
    THEN rows[CHOOSE i \in TotalRows(rows) : \A j \in TotalRows(rows) : i <= j][col]
    ELSE SumOver(1..Len(rows), [i \in 1..Len(rows) |-> rows[i][col]])

\* C23: Driving, Fees, FTA, Child support and Road safety are the Other, FTP,
\* FTA, child-support and road_safety values of the "total" row when the table
\* has one, else the sums of those columns over all rows; without a
\* child-support column Child support is 0 and Fees is the FTP value; an
\* absent category column gives 0.
C23_TotalRowOrSums ==
    (mstate = "returned" /\ mtable # <<>>) =>
        /\ ~mout.isnone
        /\ mout.Driving = SourceValue(mtable, "Other")
        /\ mout.Fees = SourceValue(mtable, "FTP")
        /\ mout.FTA = SourceValue(mtable, "FTA")
        /\ mout.Road_safety = SourceValue(mtable, "road_safety")
        /\ mout.Child_support =
              IF "child_support" \in DOMAIN mtable[1] THEN SourceValue(mtable, "child_support")
              ELSE IF "Child_Support" \in DOMAIN mtable[1]
              THEN SourceValue(mtable, "Child_Support")
              ELSE 0

\* a table without a "total" row and with a child-support column has been
\* mapped: the sums of two dated rows, the fees not reduced
C23_Witness ==
    /\ mstate = "returned" /\ Len(mtable) = 2 /\ TotalRows(mtable) = {}
    /\ "Child_Support" \in DOMAIN mtable[1] /\ "Other" \notin DOMAIN mtable[1]
    /\ mout.Child_support > 0 /\ mout.Driving = 0

(***************************************************************************)
(* The row-count jobs: records -> chunks -> (time, category) rows ->       *)
(* monthly category table.  Minnesota and Vermont read their file in       *)
(* chunks; Maryland groups each file and Washington takes each sheet whole *)
(*                                                                         *)
(* A record is [date, y, m, a, b]: the date cell, the numeric year and     *)
(* month cells, and the cells the classifier is called with.               *)
(***************************************************************************)
RowCountJobs == {"Maryland", "Minnesota", "Vermont", "Washington"}

ChunkedJobs == {"Minnesota", "Vermont"}

\* chunk_size, scaled down
ChunkSize == 2

\* the records of an input file at most
MaxRecords == 3

\* re.compile(r'^\d{4}-\d{2}-\d{2}') matched against str(reason)
LooksLikeDate(text) ==
    /\ Len(text) >= 10
    /\ IsDigits(SubSeq(text, 1, 4)) /\ SubSeq(text, 5, 5) = "-"
    /\ IsDigits(SubSeq(text, 6, 7)) /\ SubSeq(text, 8, 8) = "-"
    /\ IsDigits(SubSeq(text, 9, 10))

\* Washington: Suspension_Start is a timestamp cell, written here as
\* YYYY-MM-DD, or NaT
washington_time(start, reason) ==
    IF start.isna THEN "dropped"
    ELSE LET year == ToInt(SubSeq(start.s, 1, 4))
             month == ToInt(SubSeq(start.s, 6, 7))
         IN  IF ~(year < 2025) THEN "dropped"
             ELSE IF LooksLikeDate(reason.s) THEN "dropped"
             ELSE IF ~(year >= 1980 /\ year <= 2025) THEN "dropped"
             ELSE FormatTime(year, month)

\* the time column of a record, "dropped" for a record a filter removes
RecordTime(j, rec) ==
    CASE j = "Maryland"   -> maryland_time(rec.y, rec.m)
      [] j = "Minnesota"  -> minnesota_time(rec.date)
      [] j = "Vermont"    -> vermont_time(rec.date)
      [] j = "Washington" -> washington_time(rec.date, rec.a)

\* the rows [time, category] of the records a chunk retains, in order; count
\* is the number of records a row stands for
RECURSIVE ChunkRows(_, _)
ChunkRows(j, chunk) ==
    IF chunk = <<>> THEN <<>>
    ELSE LET rec == Head(chunk)
             time == RecordTime(j, rec)
         IN  (IF time = "dropped" THEN <<>>
              ELSE <<[time |-> time, category |-> Classify(j, rec.a, rec.b), count |-> 1]>>)
                 \o ChunkRows(j, Tail(chunk))

\* groupby(['time', 'category']) with the sum of count (size() when every
\* count is 1): one row per pair, in the order of the keys
PairsOf(rows) == {<<rows[i].time, rows[i].category>> : i \in 1..Len(rows)}

PairCount(rows, pair) ==
    SumOver({i \in 1..Len(rows) : <<rows[i].time, rows[i].category>> = pair},
            [i \in 1..Len(rows) |-> rows[i].count])

RECURSIVE GroupedRows(_, _)
GroupedRows(rows, pairs) ==
    IF pairs = {} THEN <<>>
    ELSE LET pick == CHOOSE p \in pairs : \A q \in pairs : TimeKey(p[1]) <= TimeKey(q[1])
         IN  <<[time |-> pick[1], category |-> pick[2], count |-> PairCount(rows, pick)]>>
                 \o GroupedRows(rows, pairs \ {pick})

GroupByTimeCategory(rows) == GroupedRows(rows, PairsOf(rows))

\* what a processed chunk appends to all_data: chunk[['time', 'category']] in
\* the chunked readers and in Washington, the grouped frame in Maryland
chunk_frame(j, rows) == IF j = "Maryland" THEN GroupByTimeCategory(rows) ELSE rows

\* a selection of the category columns that leaves the last one out
SelectedCategoriesShort(j) == SubSeq(Categories(j), 1, Len(Categories(j)) - 1)

\* pivot_df = pivot_df[categories]
SelectedCategories(j) == Categories(j)

\* pd.concat(all_data)
RECURSIVE ConcatFrames(_)
ConcatFrames(frames) ==
    IF frames = <<>> THEN <<>> ELSE Head(frames) \o ConcatFrames(Tail(frames))

\* a cell of the pivot: the count of the pair, 0 where the pair is absent
PivotCell(agg, time, category) ==
    SumOver({i \in 1..Len(agg) : agg[i].time = time /\ agg[i].category = category},
            [i \in 1..Len(agg) |-> agg[i].count])

\* a row of the table over the selected category columns, with its total
CountRow(time, cells, columns) ==
    [time |-> time, cells |-> cells,
     total |-> SumOver(1..Len(columns), [k \in 1..Len(columns) |-> cells[columns[k]]])]

\* the dated rows in ascending order of time, then the totals row
RowCountTable(j, all_data) ==
    LET agg == GroupByTimeCategory(ConcatFrames(all_data))
        columns == SelectedCategories(j)
        names == {columns[k] : k \in 1..Len(columns)}
        times == SortTimes({agg[i].time : i \in 1..Len(agg)})
        pivot == [t \in 1..Len(times) |->
                     CountRow(times[t], [c \in names |-> PivotCell(agg, times[t], c)], columns)]
        totals == [c \in names |->
                      SumOver(1..Len(pivot), [t \in 1..Len(pivot) |-> pivot[t].cells[c]])]
    IN  Append(pivot, [time |-> "total", cells |-> totals,
                       total |-> SumOver(1..Len(pivot),
                                         [t \in 1..Len(pivot) |-> pivot[t].total])])

\* the chunks pd.read_csv hands over; Maryland and Washington read the file
\* or sheet as one frame
RECURSIVE SplitChunks(_)
SplitChunks(records) ==
    IF Len(records) <= ChunkSize THEN <<records>>
    ELSE <<SubSeq(records, 1, ChunkSize)>>
             \o SplitChunks(SubSeq(records, ChunkSize + 1, Len(records)))

Chunks(j, records) == IF j \in ChunkedJobs THEN SplitChunks(records) ELSE <<records>>

Rec(date, y, m, a, b) == [date |-> date, y |-> y, m |-> m, a |-> a, b |-> b]

\* the records the model gives each job: retained and dropped ones, of
\* several categories, two of them in the same month
RowCountRecords(j) ==
    CASE j = "Maryland" ->
            {Rec(NaN, Num(2020), Num(3), a, NaN) :
                a \in {Str("child support"), Str("failure to appear"), Str("points")}}
            \cup {Rec(NaN, Num(2020), Num(4), Str("failure to pay"), NaN),
                  Rec(NaN, Num(2020), NaNNum, Str("failure to pay"), NaN)}
      [] j = "Minnesota" ->
            {Rec(Str(d), NaNNum, NaNNum, Str(c), NaN) :
                d \in {"2020-03-15", "2020-03-15 00:00:00"}, c \in {"SA90", "SD45"}}
            \cup {Rec(Str("1970-01-01"), NaNNum, NaNNum, Str("ZZ99"), NaN),
                  Rec(Str("2025-06-01"), NaNNum, NaNNum, Str("SD53"), NaN)}
      [] j = "Vermont" ->
            {Rec(Str(d), NaNNum, NaNNum, Str(c), NaN) :
                d \in {"990315", "990301"}, c \in {"DW1", "FAP"}}
            \cup {Rec(Str("241231"), NaNNum, NaNNum, Str("ZZZ"), NaN),
                  Rec(Str("20200315"), NaNNum, NaNNum, Str("FAF"), NaN)}
      [] j = "Washington" ->
            {Rec(Str(d), NaNNum, NaNNum, Str(a), NaN) :
                d \in {"2020-03-15"}, a \in {"Child Support", "Failed to pay", "DUI",
                                             "2019-11-02 00:00:00"}}
            \cup {Rec(Str("2021-07-01"), NaNNum, NaNNum, NaN, NaN),
                  Rec(Str("9999-12-31"), NaNNum, NaNNum, Str("Failure to appear"), NaN)}

RowCountInputs(j) == UNION {[1..n -> RowCountRecords(j)] : n \in 1..MaxRecords}

RowCountInit ==
    /\ ClassifyIdle /\ TimeIdle /\ ColoradoIdle /\ IllinoisIdle /\ NevadaIdle /\ ProcessAllIdle
    /\ RunScriptIdle /\ MapIdle /\ ParserIdle
    /\ hjur \in RowCountJobs /\ hcolumns \in BOOLEAN /\ hrecords \in RowCountInputs(hjur)
    /\ hk = 0 /\ hall = <<>> /\ hstate = "reading" /\ htable = <<>>

\* one turn of the loop over the chunks (files, sheets): without the required
\* columns the chunk is skipped; the rows of the retained records are
\* appended to all_data.  The row-wise apply of a frame without rows gives a
\* frame, whose assignment to one column is refused by some pandas versions
ReadChunk ==
    /\ hstate = "reading" /\ hk < Len(Chunks(hjur, hrecords))
    /\ hk' = hk + 1
    /\ IF ~hcolumns THEN UNCHANGED <<hall, hstate>>
       ELSE LET rows == ChunkRows(hjur, Chunks(hjur, hrecords)[hk + 1])
            IN  \/ /\ hall' = Append(hall, chunk_frame(hjur, rows))
                   /\ UNCHANGED hstate
                \/ /\ rows = <<>>
                   /\ hstate' = "error"
                   /\ UNCHANGED hall
    /\ UNCHANGED <<hjur, hcolumns, hrecords, htable>>
    /\ UNCHANGED <<cvars, tvars, kvars, ivars, nvars, pvars, rvars, mvars, yvars>>

\* after the loop: the frames are combined, grouped, pivoted and written
RowCountWrite ==
    /\ hstate = "reading" /\ hk = Len(Chunks(hjur, hrecords)) /\ hall # <<>>
    /\ htable' = RowCountTable(hjur, hall)
    /\ hstate' = "written"
    /\ UNCHANGED <<hjur, hcolumns, hrecords, hk, hall>>
    /\ UNCHANGED <<cvars, tvars, kvars, ivars, nvars, pvars, rvars, mvars, yvars>>

\* if not all_data: raise ValueError
RowCountFail ==
    /\ hstate = "reading" /\ hk = Len(Chunks(hjur, hrecords)) /\ hall = <<>>
    /\ hstate' = "error"
    /\ UNCHANGED <<hjur, hcolumns, hrecords, hk, hall, htable>>
    /\ UNCHANGED <<cvars, tvars, kvars, ivars, nvars, pvars, rvars, mvars, yvars>>

RowCountNext == ReadChunk \/ RowCountWrite \/ RowCountFail

SpecRowCount == RowCountInit /\ [][RowCountNext]_vars

(***************************************************************************)
(* Properties of the row-count jobs                                        *)
(***************************************************************************)
\* C24: in the chunked readers what is carried forward from a processed
\* chunk holds at most one entry per (time_bucket, category) pair.
C24_ChunkReduced ==
    hjur \in ChunkedJobs =>
        \A f \in 1..Len(hall) :
            \A i, k \in 1..Len(hall[f]) :
                (hall[f][i].time = hall[f][k].time /\ hall[f][i].category = hall[f][k].category)
                    => i = k

\* a record passes the time-bucket filters of its job
TimeBucketPassed(j, rec) ==
    IF j = "Washington"
    THEN /\ ~rec.date.isna
         /\ ToInt(SubSeq(rec.date.s, 1, 4)) < 2025
         /\ ToInt(SubSeq(rec.date.s, 1, 4)) >= 1980
    ELSE RecordTime(j, rec) # "dropped"

\* total of the grand-total row, the last row of the table
GrandTotal == htable[Len(htable)].total

Retained(j, rec) ==
    /\ TimeBucketPassed(j, rec)
    /\ j = "Washington" => ~LooksLikeDate(rec.a.s)

RecordedStates ==
    [i \in 1..Len(pdata) |-> pdata[i].State] \o [i \in 1..Len(pfailed) |-> pfailed[i][1]]

\* C25: while no interrupt has come, after k turns of the main loop the two
\* lists all_state_data and failed_states hold k entries together, the state
\* of each turn is in exactly one of them and no state name is there twice, so
\* that the summary written at the end has each state at most once.
C25_ExactlyOneList ==
    pphase \in {"loop", "done"} =>
        /\ Len(pdata) + Len(pfailed) = pidx - 1
        /\ \A k \in 1..(pidx - 1) :
              Cardinality({i \in 1..Len(RecordedStates) : RecordedStates[i] = StateName(k)}) = 1
        /\ \A i, j \in 1..Len(pall) : pall[i].State = pall[j].State => i = j

\* the run is over; a state failed on an exception raised while its summary
\* row was built, another had no data, and others are in the summary
C25_Witness ==
    /\ pphase = "done" /\ pidx = Len(STATE_SCRIPTS) + 1
    /\ \E i \in 1..Len(pfailed) : pfailed[i] = <<"Texas", "'time'">>
    /\ \E i \in 1..Len(pfailed) : pfailed[i][2] = "No data"
    /\ Len(pall) >= 2

(***************************************************************************)
(* A label that is one FTP keyword                                         *)
(***************************************************************************)
\* C28: in every keyword-based jurisdiction a label that is exactly one
\* keyword of the jurisdiction's own FTP rules is classified FTP: no rule
\* tested before the FTP rule takes it.
C28_OwnFtpKeywordIsFtp ==
    (ccat # "none" /\ <<carg1, carg2>> \in KeywordInputs(cjur)) => ccat = "FTP"

\* the FTP keywords of Colorado but "unsatisfied judgment" are classified as
\* C28 says, and so are all those of the other jurisdictions
C28_ButUnsatisfiedJudgment ==
    (/\ ccat # "none" /\ <<carg1, carg2>> \in KeywordInputs(cjur)
     /\ ~(cjur = "Colorado" /\ carg1 = Str("unsatisfied judgment")))
    => ccat = "FTP"

(***************************************************************************)
(* Virginia: the months of the report's date range and the weights of an   *)
(* order record (parse_virginia_pdf)                                       *)
(***************************************************************************)
\* the largest issued count of an order record
MaxIssued == 3

\* the two-digit years of the FROM and TO dates
VirginiaYears == {23, 24}

\* the FROM dates and the TO dates a report's first page may carry; day 31
\* makes a date that is not in the calendar in five months of the year
VirginiaFromDates ==
    {[y |-> 2000 + y, m |-> m, d |-> d] : y \in VirginiaYears, m \in 1..12, d \in {1, 31}}

VirginiaToDates ==
    {[y |-> 2000 + y, m |-> m, d |-> 28] : y \in VirginiaYears, m \in 1..12}

\* datetime(year, month, day) raises ValueError for a day that is not in the
\* calendar
ValidDate(date) == date.m \in 1..12 /\ date.d \in 1..DaysInMonth(date.y, date.m)

\* current <= to_date, current being the first day of its month
CurrentNotAfter(current, to_date) ==
    \/ current[1] < to_date.y
    \/ current[1] = to_date.y /\ current[2] < to_date.m
    \/ current[1] = to_date.y /\ current[2] = to_date.m /\ 1 <= to_date.d

\* count / len(months) of a whole count: long division, 20 bits at a time
FloatDiv(n, d) ==
    LET r0 == n % d
        r1 == (r0 * Limb) % d
        r2 == (r1 * Limb) % d
        r3 == (r2 * Limb) % d
    IN  FloatRound([i |-> n \div d, a |-> (r0 * Limb) \div d,
                    b |-> (r1 * Limb) \div d, c |-> (r2 * Limb) \div d],
                   r3 > 0)

VirginiaInit ==
    /\ ClassifyIdle /\ TimeIdle /\ ColoradoIdle /\ IllinoisIdle /\ NevadaIdle /\ ProcessAllIdle
    /\ RunScriptIdle /\ MapIdle /\ RowCountIdle /\ ScanIdle
    /\ vfrom = NoDate /\ vto = NoDate /\ vissued = 0
    /\ vcurrent = <<0, 0>> /\ vmonths = <<>> /\ vdata = <<>> /\ vstate = "opened"

\* the first page has no FROM/TO range: the parser returns an empty list
VirginiaNoDates ==
    /\ vstate = "opened"
    /\ vstate' = "no_dates"
    /\ UNCHANGED <<vfrom, vto, vissued, vcurrent, vmonths, vdata>>
    /\ UNCHANGED <<cvars, tvars, kvars, ivars, nvars, pvars, rvars, mvars, hvars, svars>>

\* the FROM/TO range is read from the first page, and the line of an order
\* record with its issued count from the text
VirginiaDates ==
    /\ vstate = "opened"
    /\ vfrom' \in VirginiaFromDates /\ vto' \in VirginiaToDates /\ vissued' \in 0..MaxIssued
    /\ vstate' = "start"
    /\ UNCHANGED <<vcurrent, vmonths, vdata>>
    /\ UNCHANGED <<cvars, tvars, kvars, ivars, nvars, pvars, rvars, mvars, hvars, svars>>

\* from_date or to_date is not a date: the constructor raises
VirginiaRaise ==
    /\ vstate = "start" /\ ~(ValidDate(vfrom) /\ ValidDate(vto))
    /\ vstate' = "error"
    /\ UNCHANGED <<vfrom, vto, vissued, vcurrent, vmonths, vdata>>
    /\ UNCHANGED <<cvars, tvars, kvars, ivars, nvars, pvars, rvars, mvars, hvars, svars>>

\* the order record is matched: with a count above 0 the month loop starts
\* at the first day of FROM's month, otherwise nothing is emitted
VirginiaRecord ==
    /\ vstate = "start" /\ ValidDate(vfrom) /\ ValidDate(vto)
    /\ IF vissued > 0
       THEN vcurrent' = <<vfrom.y, vfrom.m>> /\ vstate' = "loop"
       ELSE vstate' = "returned" /\ UNCHANGED vcurrent
    /\ UNCHANGED <<vfrom, vto, vissued, vmonths, vdata>>
    /\ UNCHANGED <<cvars, tvars, kvars, ivars, nvars, pvars, rvars, mvars, hvars, svars>>

\* one turn of `while current <= to_date`
VirginiaMonth ==
    /\ vstate = "loop" /\ CurrentNotAfter(vcurrent, vto)
    /\ vmonths' = Append(vmonths, FormatTime(vcurrent[1], vcurrent[2]))
    /\ vcurrent' = IF vcurrent[2] = 12 THEN <<vcurrent[1] + 1, 1>>
                   ELSE <<vcurrent[1], vcurrent[2] + 1>>
    /\ UNCHANGED <<vfrom, vto, vissued, vdata, vstate>>
    /\ UNCHANGED <<cvars, tvars, kvars, ivars, nvars, pvars, rvars, mvars, hvars, svars>>

\* after the loop: one record per month with the weight count / len(months)
VirginiaEmit ==
    /\ vstate = "loop" /\ ~CurrentNotAfter(vcurrent, vto)
    /\ vdata' = IF vmonths # <<>>
                THEN [k \in 1..Len(vmonths) |->
                         [time |-> vmonths[k], count |-> FloatDiv(vissued, Len(vmonths))]]
                ELSE <<>>
    /\ vstate' = "returned"
    /\ UNCHANGED <<vfrom, vto, vissued, vcurrent, vmonths>>
    /\ UNCHANGED <<cvars, tvars, kvars, ivars, nvars, pvars, rvars, mvars, hvars, svars>>

VirginiaNext ==
    \/ VirginiaNoDates \/ VirginiaDates \/ VirginiaRaise \/ VirginiaRecord
    \/ VirginiaMonth \/ VirginiaEmit

SpecVirginia == VirginiaInit /\ [][VirginiaNext]_vars

\* a step that takes the parser to another position, seen by vstate alone:
\* the steps of VirginiaNext but those of VirginiaMonth
VirginiaTurn ==
    /\ \/ vstate \in {"opened", "start"}
       \/ vstate = "loop" /\ ~CurrentNotAfter(vcurrent, vto)
    /\ vstate' \in {"no_dates", "start", "error", "loop", "returned"} \ {vstate}

\* the parser is one sequential program: it takes its next step whenever it
\* has one
SpecVirginiaLive == SpecVirginia /\ WF_vcurrent(VirginiaMonth) /\ WF_vstate(VirginiaTurn)

\* FROM's month is not after TO's month
FromMonthNotAfterTo == 12 * vfrom.y + vfrom.m <= 12 * vto.y + vto.m

MonthsInRange == 12 * (vto.y - vfrom.y) + (vto.m - vfrom.m) + 1

\* the calendar months from FROM's month through TO's month, ascending
CalendarMonths ==
    [k \in 1..MonthsInRange |->
        LET at == 12 * vfrom.y + vfrom.m + k - 2
        IN  FormatTime(at \div 12, (at % 12) + 1)]

\* the months and the records of an order record with a count above 0
MonthsEnumerated ==
    (vstate = "returned" /\ vissued > 0) =>
        IF FromMonthNotAfterTo
        THEN /\ vmonths = CalendarMonths
             /\ Len(vmonths) = MonthsInRange
             /\ [k \in 1..Len(vdata) |-> vdata[k].time] = vmonths
             /\ \A k \in 1..Len(vdata) : vdata[k].count = vdata[1].count
        ELSE vmonths = <<>> /\ vdata = <<>>

\* the weights of the records emitted add up to the issued count
WeightsSumBack ==
    (vstate = "returned" /\ vdata # <<>>) =>
        SequentialSum([k \in 1..Len(vdata) |-> vdata[k].count]) = FloatOfInt(vissued)

\* C29: the month loop of Virginia's parser ends for every FROM/TO pair; when
\* FROM's month is not after TO's it has collected each calendar month from
\* FROM's through TO's once, in ascending order, 12 * (to_year - from_year) +
\* (to_month - from_month) + 1 of them, and the record's issued count is split
\* into that many equal weights that add up to the issued count; when FROM's
\* month is after TO's no record is emitted.
C29_MonthLoop ==
    /\ <>(vstate \in {"returned", "error", "no_dates"})
    /\ [](MonthsEnumerated /\ WeightsSumBack)

\* the same without the sum of the weights: the loop ends and the months
\* are the calendar months of the range
C29_LoopEndsMonthsEnumerated ==
    /\ <>(vstate \in {"returned", "error", "no_dates"})
    /\ []MonthsEnumerated

\* a record of a range of several months has been emitted
C29_Reached ==
    /\ vstate = "returned" /\ Len(vdata) = 12 /\ vissued = 3
    /\ vfrom.y = 2023 /\ vfrom.m = 1 /\ vto.m = 12 /\ vto.y = 2023

(***************************************************************************)
(* Nevada: the scan of a report, line by line (parse_nevada_report)        *)
(***************************************************************************)
\* the lines of a report at most
MaxScanLines == 4

\* the lines a report is made of: section headers, a line of another status,
\* class rows, a LICENSE STATUS line, and a line naming two statuses
ReportLines ==
    {"SUSPENDED", "Revoked", "VALID 100", "CLASS C 12 7", "LICENSE STATUS : REVOKED 3",
     "SUSPENDED - EXPIRED 2"}

ScanReports == UNION {[1..n -> ReportLines] : n \in 0..MaxScanLines}

ScanInit ==
    /\ ClassifyIdle /\ TimeIdle /\ ColoradoIdle /\ IllinoisIdle /\ NevadaIdle /\ ProcessAllIdle
    /\ RunScriptIdle /\ MapIdle /\ RowCountIdle /\ VirginiaIdle
    /\ slines \in ScanReports /\ sk = 0
    /\ sin_suspended = FALSE /\ sin_revoked = FALSE /\ ssuspended = 0 /\ srevoked = 0
    /\ sstate = "scanning" /\ srow = [Other |-> 0, total |-> 0]

\* one turn of `for line in lines`
ScanLine ==
    /\ sstate = "scanning" /\ sk < Len(slines)
    /\ LET line == slines[sk + 1]
           opened == SectionOpened(Upper(line))
       IN  IF opened = "suspended"
           THEN /\ sin_suspended' = TRUE /\ sin_revoked' = FALSE
                /\ UNCHANGED <<ssuspended, srevoked>>
           ELSE IF opened = "revoked"
           THEN /\ sin_revoked' = TRUE /\ sin_suspended' = FALSE
                /\ UNCHANGED <<ssuspended, srevoked>>
           ELSE IF opened = "other"
           THEN /\ sin_suspended' = FALSE /\ sin_revoked' = FALSE
                /\ UNCHANGED <<ssuspended, srevoked>>
           ELSE IF (sin_suspended \/ sin_revoked) /\ HasNumber(line)
           THEN /\ IF sin_suspended
                   THEN ssuspended' = ssuspended + LastNumber(line) /\ UNCHANGED srevoked
                   ELSE srevoked' = srevoked + LastNumber(line) /\ UNCHANGED ssuspended
                /\ UNCHANGED <<sin_suspended, sin_revoked>>
           ELSE UNCHANGED <<sin_suspended, sin_revoked, ssuspended, srevoked>>
    /\ sk' = sk + 1
    /\ UNCHANGED <<slines, sstate, srow>>
    /\ UNCHANGED <<cvars, tvars, kvars, ivars, nvars, pvars, rvars, mvars, hvars, vvars>>

\* after the loop: the Other and total cells of the two rows of the report
ScanEmit ==
    /\ sstate = "scanning" /\ sk = Len(slines)
    /\ srow' = [Other |-> ssuspended + srevoked, total |-> ssuspended + srevoked]
    /\ sstate' = "emitted"
    /\ UNCHANGED <<slines, sk, sin_suspended, sin_revoked, ssuspended, srevoked>>
    /\ UNCHANGED <<cvars, tvars, kvars, ivars, nvars, pvars, rvars, mvars, hvars, vvars>>

ScanNext == ScanLine \/ ScanEmit

SpecScan == ScanInit /\ [][ScanNext]_vars

\* a line that opens the suspended or the revoked section
IsSectionHeader(line_upper) ==
    /\ Contains(line_upper, "SUSPENDED") \/ Contains(line_upper, "REVOKED")
    /\ ~Contains(line_upper, "LICENSE STATUS")

\* a line that names one of the other licence statuses
NamesOtherStatus(line_upper) == AnyIn(NevadaOtherStatuses, line_upper)

\* what the scan of one line may add: the line's last number, to the count
\* of the section the scan is in, and nothing when the line is a section header
CountsAddedInSection ==
    sk' = sk + 1 =>
        LET line == slines[sk + 1]
        IN  /\ ssuspended' # ssuspended =>
                  sin_suspended /\ ssuspended' = ssuspended + LastNumber(line)
            /\ srevoked' # srevoked =>
                  sin_revoked /\ srevoked' = srevoked + LastNumber(line)
            /\ IsSectionHeader(Upper(line)) =>
                  ssuspended' = ssuspended /\ srevoked' = srevoked

\* the scan of a line that names another status leaves both flags cleared
\* and the counts as they were
OtherStatusClears ==
    (sk' = sk + 1 /\ NamesOtherStatus(Upper(slines[sk + 1]))) =>
        /\ ~sin_suspended' /\ ~sin_revoked'
        /\ ssuspended' = ssuspended /\ srevoked' = srevoked

\* the same for a line that names another status and is no section header
OtherStatusClearsUnlessHeader ==
    (/\ sk' = sk + 1
     /\ NamesOtherStatus(Upper(slines[sk + 1]))
     /\ ~IsSectionHeader(Upper(slines[sk + 1]))) =>
        /\ ~sin_suspended' /\ ~sin_revoked'
        /\ ssuspended' = ssuspended /\ srevoked' = srevoked

\* the section-header lines set exactly one flag
HeaderSetsOneFlag ==
    (sk' = sk + 1 /\ IsSectionHeader(Upper(slines[sk + 1]))) =>
        (sin_suspended' # sin_revoked')

EmittedIsSum ==
    sstate = "emitted" =>
        srow.Other = ssuspended + srevoked /\ srow.total = ssuspended + srevoked

\* C30 as stated: during the scan the two section flags are never both set;
\* a line's last number is added to the suspended count only while the
\* suspended flag is set and to the revoked count only while the revoked
\* flag is set; a section-header line adds nothing; a line that names another
\* status clears both flags and adds nothing; Other and total are emitted as
\* suspended count + revoked count.
C30_ScanAsStated ==
    /\ [](~(sin_suspended /\ sin_revoked))
    /\ [][CountsAddedInSection /\ OtherStatusClears]_svars
    /\ []EmittedIsSum

\* C30 amended: as above, but a line that names another status clears both
\* flags only when it is no section header: a line that names SUSPENDED or
\* REVOKED outside a LICENSE STATUS line opens that section, whatever other
\* status it names too, and sets exactly one flag.
C30_ScanHeadersFirst ==
    /\ [](~(sin_suspended /\ sin_revoked))
    /\ [][CountsAddedInSection /\ OtherStatusClearsUnlessHeader /\ HeaderSetsOneFlag]_svars
    /\ []EmittedIsSum

\* a report has been scanned in which a line naming two statuses opened the
\* suspended section, a class row was counted in it, a line of another
\* status closed it and the class row after that line was not counted
C30_Witness ==
    /\ sstate = "emitted" /\ ssuspended = 7 /\ srevoked = 0
    /\ slines = <<"SUSPENDED - EXPIRED 2", "CLASS C 12 7", "VALID 100", "CLASS C 12 7">>
    /\ srow.Other = ScanLines(slines, 1, "other", 0)

====
